---- MODULE Spec2Model ----
(***************************************************************************)
(* Model of the plan-question dialog of codex-rs (tui and tui2 share the   *)
(* same dialog code): PlanQuestionsView, its key/paste/ctrl-c handlers,    *)
(* the answer codec format_answers and the free-text normalisation; and of *)
(* the two parsers parse_plan_question_round, tui's line scanner and       *)
(* tui2's regex scanner; and of inject_developer_message of plan_mode.rs.  *)
(*                                                                         *)
(* Strings are sequences of one-character strings.  Option<T> is a         *)
(* sequence of length 0 (None) or 1 (Some).  Indices are 0-based as in the *)
(* source; a Vec v is a TLA+ sequence and v[i] of the source is v[i + 1].  *)
(***************************************************************************)
EXTENDS Integers, Sequences, FiniteSets, TLC

(* ------------------------------ bounds --------------------------------- *)

\* Questions per round drawn for the dialog.
MaxQuestions == 2
\* Options per question drawn for the dialog (the last one is free text).
MaxOptions == 3
\* Characters the free-text editor buffer may hold.
MaxText == 2
\* Characters of one pasted string.
MaxPaste == 1
\* Messages on the outbound channel after which no more events are explored.
MaxSent == 2
\* Questions per round, and characters per free text, given to the codec
\* when it is checked on its own.
MaxCodecQuestions == 2
MaxCodecText == 2
\* The UI limit on the options of a question.
MaxUiOptions == 5
\* Questions a round may hold.
MaxUiQuestions == 5

\* Lines of a short agent message.
MaxLines == 4
\* Lines after the header of a long agent message.
MaxLongLines == 7
\* Lines after the first question line of a one-section agent message.
MaxSectionLines == 5
\* Items of a turn input.
MaxItems == 4

(* --------------------------- Option<T>, strings ------------------------ *)

None == <<>>

Some(x) == <<x>>

is_some(o) == Len(o) = 1

unwrap(o) == o[1]

\* Characters the operator types into the free-text editor: a digit (taken
\* literally while editing), a blank and a line break.
TypedChars == {"1", " ", "\n"}

is_whitespace(c) == c \in {" ", "\n", "\t"}

RECURSIVE trim_start(_)
trim_start(t) ==
    IF t # <<>> /\ is_whitespace(Head(t)) THEN trim_start(Tail(t)) ELSE t

RECURSIVE trim_end(_)
trim_end(t) ==
    IF t # <<>> /\ is_whitespace(t[Len(t)])
    THEN trim_end(SubSeq(t, 1, Len(t) - 1))
    ELSE t

trim(t) == trim_end(trim_start(t))

\* str::split_whitespace: the maximal runs of non-whitespace characters.
RECURSIVE split_whitespace(_)
split_whitespace(t) ==
    LET s == trim_start(t)
        RECURSIVE word_len(_)
        word_len(u) ==
            IF u = <<>> \/ is_whitespace(Head(u)) THEN 0 ELSE 1 + word_len(Tail(u))
    IN  IF s = <<>> THEN <<>>
        ELSE LET n == word_len(s)
             IN  <<SubSeq(s, 1, n)>> \o split_whitespace(SubSeq(s, n + 1, Len(s)))

RECURSIVE join_parts(_, _)
join_parts(out, parts) ==
    IF parts = <<>> THEN out
    ELSE join_parts((IF out # <<>> THEN out \o <<" ">> ELSE out) \o Head(parts),
                    Tail(parts))

\* A variant of normalize_free_text that trims the ends only.
normalize_free_text_trims_only(text) == trim(text)

\* A variant of normalize_free_text that keeps the text as typed.
normalize_free_text_keeps_whitespace(text) == text

normalize_free_text(text) == join_parts(<<>>, split_whitespace(text))

Digits == <<"0", "1", "2", "3", "4", "5", "6", "7", "8", "9">>

\* usize::to_string
RECURSIVE to_string(_)
to_string(n) ==
    IF n < 10 THEN <<Digits[n + 1]>>
    ELSE to_string(n \div 10) \o <<Digits[(n % 10) + 1]>>

\* char::to_digit(10)
to_digit(c) ==
    IF \E d \in 0..9 : Digits[d + 1] = c
    THEN Some(CHOOSE d \in 0..9 : Digits[d + 1] = c)
    ELSE None

\* All strings over TypedChars of length lo..hi.
TextsOf(lo, hi) == UNION {[1..n -> TypedChars] : n \in lo..hi}

(* ------------------------------ data model ----------------------------- *)

QuestionKinds == {"SingleSelect", "MultiSelect"}

QuestionOption(title, description, is_free_text) ==
    [title |-> title, description |-> description, is_free_text |-> is_free_text]

FreeTextTitle == <<"(", "N", "o", "n", "e", ")">>

PlanQuestion(label, prompt, kind, options) ==
    [label |-> label, prompt |-> prompt, kind |-> kind, options |-> options]

QuestionAnswer(selected, free_text) ==
    [selected_option_indices |-> selected, free_text |-> free_text]

\* QuestionAnswer::default()
DefaultAnswer == QuestionAnswer(<<>>, None)

(* ----------------------------- the codec ------------------------------- *)

\* A variant of answer_is_nonempty for which only a selection counts.
answer_is_nonempty_selection_only(answer) == answer.selected_option_indices # <<>>

\* A variant of answer_is_nonempty for which any free text counts.
answer_is_nonempty_any_text(answer) ==
    \/ is_some(answer.free_text)
    \/ answer.selected_option_indices # <<>>

answer_is_nonempty(answer) ==
    \/ (is_some(answer.free_text) /\ trim(unwrap(answer.free_text)) # <<>>)
    \/ answer.selected_option_indices # <<>>

RECURSIVE join_comma(_)
join_comma(items) ==
    IF items = <<>> THEN <<>>
    ELSE IF Len(items) = 1 THEN Head(items)
    ELSE Head(items) \o <<",">> \o join_comma(Tail(items))

\* A variant of format_answer_line in which a selection wins over free text.
format_answer_line_selection_first(question, answer) ==
    LET text == IF is_some(answer.free_text) THEN trim(unwrap(answer.free_text))
                ELSE <<>>
        sel  == answer.selected_option_indices
    IN  IF sel = <<>> THEN text
        ELSE IF question.kind = "SingleSelect" THEN to_string(sel[1] + 1)
        ELSE join_comma([i \in 1..Len(sel) |-> to_string(sel[i] + 1)])

format_answer_line(question, answer) ==
    LET text == IF is_some(answer.free_text) THEN trim(unwrap(answer.free_text))
                ELSE <<>>
        sel  == answer.selected_option_indices
    IN  IF text # <<>> THEN text
        ELSE IF question.kind = "SingleSelect"
             THEN (IF sel # <<>> THEN to_string(sel[1] + 1) ELSE <<>>)
             ELSE join_comma([i \in 1..Len(sel) |-> to_string(sel[i] + 1)])

RECURSIVE format_answers_from(_, _, _, _)
format_answers_from(questions, answers, idx, out) ==
    IF idx >= Len(questions) \/ idx >= Len(answers) THEN out
    ELSE format_answers_from(
            questions, answers, idx + 1,
            (IF idx > 0 THEN out \o <<"\n">> ELSE out)
                \o format_answer_line(questions[idx + 1], answers[idx + 1]))

format_answers(r, answers) == format_answers_from(r.questions, answers, 0, <<>>)

(* --------------------------- the dialog state -------------------------- *)

VARIABLES
    round,                  \* PlanQuestionsView.round
    active_tab,             \* PlanQuestionsView.active_tab
    selected_idx,           \* PlanQuestionsView.state.selected_idx
    answers,                \* PlanQuestionsView.answers
    complete,               \* PlanQuestionsView.complete
    error,                  \* PlanQuestionsView.error
    free_text_editor,       \* text of PlanQuestionsView.free_text_editor
    is_editing_free_text,   \* PlanQuestionsView.is_editing_free_text
    sent,                   \* texts sent on app_event_tx, oldest first
    message,                \* the agent message handed to the parsers, as text.lines()
    tui_parsed,             \* what tui's parse_plan_question_round returned, once called
    tui2_parsed,            \* what tui2's parse_plan_question_round returned, once called
    input,                  \* the items handed to inject_developer_message
    mode,                   \* the interaction mode handed to inject_developer_message
    injected                \* what inject_developer_message returned, once called

vars == <<round, active_tab, selected_idx, answers, complete, error,
          free_text_editor, is_editing_free_text, sent, message, tui_parsed, tui2_parsed,
          input, mode, injected>>

\* The parsers' input and results; the dialog never touches them.
parser_vars == <<message, tui_parsed, tui2_parsed>>

\* The input and result of inject_developer_message; neither the dialog nor
\* the parsers touch them.
prompt_vars == <<input, mode, injected>>

\* No turn input is being prepared: the dialog and the parsers run while a
\* Plan mode turn waits.
NoTurn ==
    /\ input = <<>>
    /\ mode = "Plan"
    /\ injected = <<>>

\* The mutable fields of the view as one value, so that a handler and the
\* methods it calls compose as functions.
View ==
    [active_tab |-> active_tab, selected_idx |-> selected_idx, answers |-> answers,
     complete |-> complete, error |-> error, free_text_editor |-> free_text_editor,
     is_editing_free_text |-> is_editing_free_text, sent |-> sent]

Becomes(v) ==
    /\ active_tab' = v.active_tab
    /\ selected_idx' = v.selected_idx
    /\ answers' = v.answers
    /\ complete' = v.complete
    /\ error' = v.error
    /\ free_text_editor' = v.free_text_editor
    /\ is_editing_free_text' = v.is_editing_free_text
    /\ sent' = v.sent
    /\ round' = round
    /\ UNCHANGED parser_vars
    /\ UNCHANGED prompt_vars

ErrorAnswerAll == Some("Answer all questions to submit.")

(* ScrollState (scroll_state.rs): only selected_idx matters here. *)

clamp_selection(sel, len) ==
    IF len = 0 THEN None
    ELSE LET cur == IF is_some(sel) THEN unwrap(sel) ELSE 0
         IN  Some(IF cur < len - 1 THEN cur ELSE len - 1)

move_up_wrap(sel, len) ==
    IF len = 0 THEN None
    ELSE IF is_some(sel) /\ unwrap(sel) > 0 THEN Some(unwrap(sel) - 1)
    ELSE IF is_some(sel) THEN Some(len - 1)
    ELSE Some(0)

move_down_wrap(sel, len) ==
    IF len = 0 THEN None
    ELSE IF is_some(sel) /\ unwrap(sel) + 1 < len THEN Some(unwrap(sel) + 1)
    ELSE Some(0)

(* PlanQuestionsView *)

\* Length of the options of the active question, 0 on the submit tab.
active_options_len(v) ==
    IF v.active_tab < Len(round.questions)
    THEN Len(round.questions[v.active_tab + 1].options)
    ELSE 0

is_submit_tab(v) == v.active_tab >= Len(round.questions)

reset_option_cursor(v) ==
    [v EXCEPT !.is_editing_free_text = FALSE,
              !.selected_idx = clamp_selection(None, active_options_len(v))]

\* A variant of save_active_free_text that saves the text as typed.
save_active_free_text_keeps_raw(v) ==
    IF ~v.is_editing_free_text THEN v
    ELSE LET tab == v.active_tab
             saved == IF tab < Len(v.answers) /\ is_some(v.answers[tab + 1].free_text)
                      THEN [v.answers EXCEPT ![tab + 1].free_text = Some(v.free_text_editor)]
                      ELSE v.answers
         IN  [v EXCEPT !.answers = saved, !.is_editing_free_text = FALSE]

save_active_free_text(v) ==
    IF ~v.is_editing_free_text THEN v
    ELSE LET normalized == normalize_free_text(v.free_text_editor)
             tab == v.active_tab
             saved == IF tab < Len(v.answers) /\ is_some(v.answers[tab + 1].free_text)
                      THEN [v.answers EXCEPT ![tab + 1].free_text = Some(normalized)]
                      ELSE v.answers
         IN  [v EXCEPT !.answers = saved,
                       !.free_text_editor = normalized,
                       !.is_editing_free_text = FALSE]

all_answered(v) == \A i \in 1..Len(v.answers) : answer_is_nonempty(v.answers[i])

\* A variant of submit without the all-answered check.
submit_unchecked(v) ==
    LET s == save_active_free_text(v)
    IN  [s EXCEPT !.sent = Append(@, format_answers(round, s.answers)),
                  !.complete = TRUE]

\* A variant of submit whose refusal leaves the tab where it is.
submit_refusal_keeps_tab(v) ==
    LET s == save_active_free_text(v)
    IN  IF ~all_answered(s)
        THEN reset_option_cursor([s EXCEPT !.error = ErrorAnswerAll])
        ELSE [s EXCEPT !.sent = Append(@, format_answers(round, s.answers)),
                       !.complete = TRUE]

\* A variant of submit whose refusal moves to the first unanswered question.
submit_to_first_unanswered(v) ==
    LET s == save_active_free_text(v)
        first == CHOOSE i \in 0..(Len(s.answers) - 1) :
                    /\ ~answer_is_nonempty(s.answers[i + 1])
                    /\ \A j \in 0..(i - 1) : answer_is_nonempty(s.answers[j + 1])
    IN  IF ~all_answered(s)
        THEN reset_option_cursor([s EXCEPT !.error = ErrorAnswerAll, !.active_tab = first])
        ELSE [s EXCEPT !.sent = Append(@, format_answers(round, s.answers)),
                       !.complete = TRUE]

submit(v) ==
    LET s == save_active_free_text(v)
    IN  IF ~all_answered(s)
        THEN reset_option_cursor([s EXCEPT !.error = ErrorAnswerAll, !.active_tab = 0])
        ELSE [s EXCEPT !.sent = Append(@, format_answers(round, s.answers)),
                       !.complete = TRUE]

move_tab_left(v) ==
    IF v.active_tab > 0
    THEN reset_option_cursor([save_active_free_text(v) EXCEPT !.active_tab = @ - 1])
    ELSE v

\* A variant of move_tab_right without the test against the number of
\* questions.
move_tab_right_unbounded(v) ==
    LET max == Len(round.questions)
        s == [save_active_free_text(v) EXCEPT !.active_tab = @ + 1]
    IN  IF s.active_tab = max /\ all_answered(s)
        THEN submit(s)
        ELSE reset_option_cursor(s)

\* A variant of move_tab_right that submits whenever it reaches the submit tab.
move_tab_right_always_submits(v) ==
    LET max == Len(round.questions)
    IN  IF v.active_tab < max
        THEN LET s == [save_active_free_text(v) EXCEPT !.active_tab = @ + 1]
             IN  IF s.active_tab = max THEN submit(s) ELSE reset_option_cursor(s)
        ELSE v

\* A variant of move_tab_right that never submits by itself.
move_tab_right_never_submits(v) ==
    LET max == Len(round.questions)
    IN  IF v.active_tab < max
        THEN reset_option_cursor([save_active_free_text(v) EXCEPT !.active_tab = @ + 1])
        ELSE v

move_tab_right(v) ==
    LET max == Len(round.questions)
    IN  IF v.active_tab < max
        THEN LET s == [save_active_free_text(v) EXCEPT !.active_tab = @ + 1]
             IN  IF s.active_tab = max /\ all_answered(s)
                 THEN submit(s)
                 ELSE reset_option_cursor(s)
        ELSE v

move_up(v) ==
    IF v.is_editing_free_text \/ is_submit_tab(v) THEN v
    ELSE [v EXCEPT !.selected_idx = move_up_wrap(@, active_options_len(v))]

move_down(v) ==
    IF v.is_editing_free_text \/ is_submit_tab(v) THEN v
    ELSE [v EXCEPT !.selected_idx = move_down_wrap(@, active_options_len(v))]

\* Vec::sort_unstable on a list of distinct indices.
RECURSIVE sort_unstable(_)
sort_unstable(s) ==
    IF s = <<>> THEN <<>>
    ELSE LET m == CHOOSE i \in 1..Len(s) : \A j \in 1..Len(s) : s[i] <= s[j]
         IN  <<s[m]>> \o sort_unstable(SubSeq(s, 1, m - 1) \o SubSeq(s, m + 1, Len(s)))

\* A variant of toggle_index that pushes idx without sorting.
toggle_index_unsorted(sel, idx) ==
    IF \E p \in 1..Len(sel) : sel[p] = idx
    THEN LET pos == CHOOSE p \in 1..Len(sel) :
                        sel[p] = idx /\ \A q \in 1..(p - 1) : sel[q] # idx
         IN  SubSeq(sel, 1, pos - 1) \o SubSeq(sel, pos + 1, Len(sel))
    ELSE Append(sel, idx)

\* The MultiSelect arm of toggle_selected: remove idx if present, else
\* push it and sort.
toggle_index(sel, idx) ==
    IF \E p \in 1..Len(sel) : sel[p] = idx
    THEN LET pos == CHOOSE p \in 1..Len(sel) :
                        sel[p] = idx /\ \A q \in 1..(p - 1) : sel[q] # idx
         IN  SubSeq(sel, 1, pos - 1) \o SubSeq(sel, pos + 1, Len(sel))
    ELSE sort_unstable(Append(sel, idx))

\* A variant of enter_free_text that keeps the structured selection.
enter_free_text_keeps_selection(v, tab) ==
    LET answer == v.answers[tab + 1]
        existing == IF is_some(answer.free_text) THEN unwrap(answer.free_text) ELSE <<>>
    IN  [v EXCEPT !.answers[tab + 1].free_text = Some(existing),
                  !.free_text_editor = existing,
                  !.is_editing_free_text = TRUE]

\* A variant of enter_free_text that leaves the editor buffer as it is.
enter_free_text_keeps_editor(v, tab) ==
    LET answer == v.answers[tab + 1]
        existing == IF is_some(answer.free_text) THEN unwrap(answer.free_text) ELSE <<>>
    IN  [v EXCEPT !.answers[tab + 1] = QuestionAnswer(<<>>, Some(existing)),
                  !.is_editing_free_text = TRUE]

\* The free-text arm of toggle_selected.
enter_free_text(v, tab) ==
    LET answer == v.answers[tab + 1]
        existing == IF is_some(answer.free_text) THEN unwrap(answer.free_text) ELSE <<>>
    IN  [v EXCEPT !.answers[tab + 1] = QuestionAnswer(<<>>, Some(existing)),
                  !.free_text_editor = existing,
                  !.is_editing_free_text = TRUE]

\* A variant of select_single that stays on the question.
select_single_stays(v, tab, idx) ==
    [v EXCEPT !.is_editing_free_text = FALSE,
              !.answers[tab + 1] = QuestionAnswer(<<idx>>, None)]

\* The SingleSelect arm of toggle_selected.
select_single(v, tab, idx) ==
    move_tab_right([v EXCEPT !.is_editing_free_text = FALSE,
                             !.answers[tab + 1] = QuestionAnswer(<<idx>>, None)])

\* A variant of toggle_multi that keeps the free text.
toggle_multi_keeps_free_text(v, tab, idx) ==
    [v EXCEPT !.is_editing_free_text = FALSE,
              !.answers[tab + 1].selected_option_indices = toggle_index(@, idx)]

\* The MultiSelect arm of toggle_selected.
toggle_multi(v, tab, idx) ==
    [v EXCEPT !.is_editing_free_text = FALSE,
              !.answers[tab + 1] =
                  QuestionAnswer(toggle_index(@.selected_option_indices, idx), None)]

\* A variant of toggle_selected that does nothing on the submit tab.
toggle_selected_skips_submit(v) ==
    LET e == [v EXCEPT !.error = None]
        tab == e.active_tab
    IN  IF is_submit_tab(e) THEN e
        ELSE IF ~is_some(e.selected_idx) THEN e
        ELSE IF unwrap(e.selected_idx) >= Len(round.questions[tab + 1].options) THEN e
        ELSE LET idx == unwrap(e.selected_idx)
                 question == round.questions[tab + 1]
                 option == question.options[idx + 1]
             IN  IF option.is_free_text THEN enter_free_text(e, tab)
                 ELSE IF question.kind = "SingleSelect" THEN select_single(e, tab, idx)
                 ELSE toggle_multi(e, tab, idx)

toggle_selected(v) ==
    LET e == [v EXCEPT !.error = None]
        tab == e.active_tab
    IN  IF is_submit_tab(e) THEN submit(e)
        ELSE IF ~is_some(e.selected_idx) THEN e
        ELSE IF unwrap(e.selected_idx) >= Len(round.questions[tab + 1].options) THEN e
        ELSE LET idx == unwrap(e.selected_idx)
                 question == round.questions[tab + 1]
                 option == question.options[idx + 1]
             IN  IF option.is_free_text THEN enter_free_text(e, tab)
                 ELSE IF question.kind = "SingleSelect" THEN select_single(e, tab, idx)
                 ELSE toggle_multi(e, tab, idx)

(* ------------------------------ key events ----------------------------- *)

KeyEvent(code, c, modifiers) == [code |-> code, c |-> c, modifiers |-> modifiers]

Key(code) == KeyEvent(code, "", "NONE")

CharKey(c) == KeyEvent("Char", c, "NONE")

\* Ctrl-J, the editor's line-break key.
CtrlJ == KeyEvent("Char", "j", "CONTROL")

\* TextArea::input (textarea.rs) with the cursor at pos: a character key
\* inserts there, Ctrl-J inserts a line break, Backspace deletes the
\* character before the cursor, any other key leaves the text alone.
insert_str(text, pos, s) ==
    SubSeq(text, 1, pos) \o s \o SubSeq(text, pos + 1, Len(text))

textarea_input(text, pos, key) ==
    IF key.code = "Char" /\ key.modifiers = "NONE" THEN insert_str(text, pos, <<key.c>>)
    ELSE IF key = CtrlJ THEN insert_str(text, pos, <<"\n">>)
    ELSE IF key.code = "Backspace" /\ pos > 0
         THEN SubSeq(text, 1, pos - 1) \o SubSeq(text, pos + 1, Len(text))
    ELSE text

\* A variant of mirror_free_text that mirrors the normalized text.
mirror_free_text_normalized(v, text) ==
    LET tab == v.active_tab
    IN  [v EXCEPT !.free_text_editor = text,
                  !.answers = IF tab < Len(v.answers) /\ is_some(v.answers[tab + 1].free_text)
                              THEN [@ EXCEPT ![tab + 1].free_text =
                                                Some(normalize_free_text(text))]
                              ELSE @]

\* The tail of handle_free_text_key_event and of handle_paste: the live
\* editor text is mirrored into the active answer.
mirror_free_text(v, text) ==
    LET tab == v.active_tab
    IN  [v EXCEPT !.free_text_editor = text,
                  !.answers = IF tab < Len(v.answers) /\ is_some(v.answers[tab + 1].free_text)
                              THEN [@ EXCEPT ![tab + 1].free_text = Some(text)]
                              ELSE @]

handle_free_text_key_event(v, key, pos) ==
    IF key.code = "Esc" THEN [v EXCEPT !.complete = TRUE]
    ELSE IF (key.code = "Tab" /\ key.modifiers = "NONE") \/ key.code = "Right"
         THEN move_tab_right(save_active_free_text(v))
    ELSE IF key.code = "Enter" THEN move_tab_right(save_active_free_text(v))
    ELSE mirror_free_text(v, textarea_input(v.free_text_editor, pos, key))

\* A variant of quick_select that activates the option under the cursor.
quick_select_keeps_cursor(v, c) ==
    LET n == to_digit(c)
    IN  IF ~is_some(n) \/ unwrap(n) = 0 THEN v
        ELSE IF is_submit_tab(v) THEN v
        ELSE IF unwrap(n) - 1 < active_options_len(v) THEN toggle_selected(v)
        ELSE v

\* The Char arm of handle_key_event: quick select by digit.
quick_select(v, c) ==
    LET n == to_digit(c)
    IN  IF ~is_some(n) \/ unwrap(n) = 0 THEN v
        ELSE IF is_submit_tab(v) THEN v
        ELSE IF unwrap(n) - 1 < active_options_len(v)
             THEN toggle_selected([v EXCEPT !.selected_idx = Some(unwrap(n) - 1)])
        ELSE v

\* pos is the editor's cursor position, read only while editing.
handle_key_event(v, key, pos) ==
    IF v.is_editing_free_text THEN handle_free_text_key_event(v, key, pos)
    ELSE IF key.code = "Esc" THEN [v EXCEPT !.complete = TRUE]
    ELSE IF key.code = "Left" THEN move_tab_left(v)
    ELSE IF key.code = "Right" \/ (key.code = "Tab" /\ key.modifiers = "NONE")
         THEN move_tab_right(v)
    ELSE IF key.code = "Up" THEN move_up(v)
    ELSE IF key.code = "Down" THEN move_down(v)
    ELSE IF key.code = "Enter" THEN toggle_selected(v)
    ELSE IF key.code = "Char" /\ key.modifiers = "NONE" THEN quick_select(v, key.c)
    ELSE v

on_ctrl_c(v) == [v EXCEPT !.complete = TRUE]

handle_paste(v, pasted, pos) ==
    IF ~v.is_editing_free_text \/ pasted = <<>> THEN v
    ELSE mirror_free_text(
            v, insert_str(v.free_text_editor, pos, normalize_free_text(pasted)))

(* ------------------------- rounds given to the dialog ------------------ *)

\* Option lists as parse_plan_question_round leaves them for well-formed
\* input: n - 1 listed options followed by the free-text option.
OptionLists ==
    {[i \in 1..n |-> IF i = n THEN QuestionOption(FreeTextTitle, None, TRUE)
                              ELSE QuestionOption(<<"O", to_string(i)[1]>>, None, FALSE)] :
        n \in 1..MaxOptions}

Questions ==
    {PlanQuestion(<<"Q">>, <<"P">>, kind, options) :
        kind \in QuestionKinds, options \in OptionLists}

Rounds == {[questions |-> qs] : qs \in UNION {[1..n -> Questions] : n \in 1..MaxQuestions}}

(* ------------------------------ the dialog ----------------------------- *)

\* PlanQuestionsView::new
Init ==
    /\ round \in Rounds
    /\ active_tab = 0
    /\ selected_idx = clamp_selection(None, Len(round.questions[1].options))
    /\ answers = [i \in 1..Len(round.questions) |-> DefaultAnswer]
    /\ complete = FALSE
    /\ error = None
    /\ free_text_editor = <<>>
    /\ is_editing_free_text = FALSE
    /\ sent = <<>>
    /\ message = <<>>
    /\ tui_parsed = <<>>
    /\ tui2_parsed = <<>>
    /\ NoTurn

\* Exploration stops once MaxSent messages are on the channel.
Accepting == Len(sent) < MaxSent

CursorPositions == 0..Len(free_text_editor)

\* Digits the operator presses outside the editor: 0, every option number
\* and one number past the last option.
DigitKeys == {Digits[d + 1] : d \in 0..(MaxOptions + 1)}

PressEsc == Accepting /\ Becomes(handle_key_event(View, Key("Esc"), 0))

PressLeft ==
    /\ Accepting
    /\ \E pos \in CursorPositions : Becomes(handle_key_event(View, Key("Left"), pos))

PressRight ==
    /\ Accepting
    /\ \E code \in {"Right", "Tab"} : Becomes(handle_key_event(View, Key(code), 0))

PressUp ==
    /\ Accepting
    /\ \E pos \in CursorPositions : Becomes(handle_key_event(View, Key("Up"), pos))

PressDown ==
    /\ Accepting
    /\ \E pos \in CursorPositions : Becomes(handle_key_event(View, Key("Down"), pos))

PressEnter == Accepting /\ Becomes(handle_key_event(View, Key("Enter"), 0))

\* A digit pressed outside the editor.
PressDigit ==
    /\ Accepting
    /\ ~is_editing_free_text
    /\ \E c \in DigitKeys : Becomes(handle_key_event(View, CharKey(c), 0))

\* A character typed into the editor (a digit is literal text there).
TypeChar ==
    /\ Accepting
    /\ is_editing_free_text
    /\ Len(free_text_editor) < MaxText
    /\ \E pos \in CursorPositions :
        \E key \in {CharKey("1"), CharKey(" "), CtrlJ} :
            Becomes(handle_key_event(View, key, pos))

PressBackspace ==
    /\ Accepting
    /\ \E pos \in CursorPositions : Becomes(handle_key_event(View, Key("Backspace"), pos))

Paste ==
    /\ Accepting
    /\ \E pasted \in TextsOf(0, MaxPaste) :
        /\ Len(free_text_editor) + Len(normalize_free_text(pasted)) <= MaxText
        /\ \E pos \in CursorPositions : Becomes(handle_paste(View, pasted, pos))

CtrlC == Accepting /\ Becomes(on_ctrl_c(View))

Next ==
    \/ PressEsc
    \/ PressLeft
    \/ PressRight
    \/ PressUp
    \/ PressDown
    \/ PressEnter
    \/ PressDigit
    \/ TypeChar
    \/ PressBackspace
    \/ Paste
    \/ CtrlC

Spec == Init /\ [][Next]_vars

(* ------------------------ the codec on its own ------------------------- *)

\* Strictly ascending index lists over 0..hi: the selected_option_indices
\* the data model allows.
AscendingLists(hi) ==
    {sel \in UNION {[1..n -> 0..hi] : n \in 0..(hi + 1)} :
        \A i \in 1..(Len(sel) - 1) : sel[i] < sel[i + 1]}

\* Answers given to the codec: any selection of the options before the
\* free-text option, with or without a free text.
CodecAnswers ==
    {QuestionAnswer(sel, ft) :
        sel \in AscendingLists(MaxUiOptions - 2),
        ft \in {None} \cup {Some(t) : t \in TextsOf(0, MaxCodecText)}}

CodecQuestions ==
    {PlanQuestion(<<"Q">>, <<"P">>, kind,
                  [i \in 1..MaxUiOptions |->
                      IF i = MaxUiOptions THEN QuestionOption(FreeTextTitle, None, TRUE)
                      ELSE QuestionOption(<<"O", to_string(i)[1]>>, None, FALSE)]) :
        kind \in QuestionKinds}

CodecInit ==
    /\ \E n \in 1..MaxCodecQuestions :
        /\ round \in {[questions |-> qs] : qs \in [1..n -> CodecQuestions]}
        /\ answers \in [1..n -> CodecAnswers]
    /\ active_tab = 0
    /\ selected_idx = Some(0)
    /\ complete = FALSE
    /\ error = None
    /\ free_text_editor = <<>>
    /\ is_editing_free_text = FALSE
    /\ sent = <<>>
    /\ message = <<>>
    /\ tui_parsed = <<>>
    /\ tui2_parsed = <<>>
    /\ NoTurn

\* format_answers applied to the drawn round and answers; the result is
\* put where submit puts it.
CodecEncode ==
    /\ sent = <<>>
    /\ sent' = <<format_answers(round, answers)>>
    /\ UNCHANGED <<round, active_tab, selected_idx, answers, complete, error,
                   free_text_editor, is_editing_free_text>>
    /\ UNCHANGED parser_vars
    /\ UNCHANGED prompt_vars

CodecNext == CodecEncode

CodecSpec == CodecInit /\ [][CodecNext]_vars

(* --------------------------- more of str ------------------------------- *)

\* The character U+2014 (em dash), one character of a string.
EmDash == "emdash"

UpperCase ==
    <<"A", "B", "C", "D", "E", "F", "G", "H", "I", "J", "K", "L", "M",
      "N", "O", "P", "Q", "R", "S", "T", "U", "V", "W", "X", "Y", "Z">>

LowerCase ==
    <<"a", "b", "c", "d", "e", "f", "g", "h", "i", "j", "k", "l", "m",
      "n", "o", "p", "q", "r", "s", "t", "u", "v", "w", "x", "y", "z">>

is_ascii_digit(c) == \E d \in 1..10 : Digits[d] = c

\* char::to_ascii_lowercase on the upper-case letters.
LowerOf ==
    [c \in {UpperCase[k] : k \in 1..26} |->
        LowerCase[CHOOSE k \in 1..26 : UpperCase[k] = c]]

\* str::to_ascii_lowercase
to_ascii_lowercase(s) ==
    [i \in 1..Len(s) |-> IF s[i] \in DOMAIN LowerOf THEN LowerOf[s[i]] ELSE s[i]]

\* str::eq_ignore_ascii_case
eq_ignore_ascii_case(a, b) == to_ascii_lowercase(a) = to_ascii_lowercase(b)

\* str::starts_with
starts_with(s, p) == Len(s) >= Len(p) /\ SubSeq(s, 1, Len(p)) = p

\* str::find: the 0-based index of the first occurrence of p in s.
find(s, p) ==
    LET hits == {i \in 0..(Len(s) - Len(p)) : SubSeq(s, i + 1, i + Len(p)) = p}
    IN  IF hits = {} THEN None
        ELSE Some(CHOOSE i \in hits : \A j \in hits : i <= j)

\* str::contains
contains(s, p) == is_some(find(s, p))

\* str::split_once
split_once(s, sep) ==
    LET at == find(s, sep)
    IN  IF at = None THEN None
        ELSE Some(<<SubSeq(s, 1, unwrap(at)),
                    SubSeq(s, unwrap(at) + Len(sep) + 1, Len(s))>>)

\* str::replace: every non-overlapping occurrence, left to right.
RECURSIVE replace(_, _, _)
replace(s, from, to) ==
    LET at == find(s, from)
    IN  IF at = None THEN s
        ELSE SubSeq(s, 1, unwrap(at)) \o to
             \o replace(SubSeq(s, unwrap(at) + Len(from) + 1, Len(s)), from, to)

\* str::trim_start_matches with a set of characters
RECURSIVE trim_start_matches(_, _)
trim_start_matches(s, chars) ==
    IF s # <<>> /\ Head(s) \in chars THEN trim_start_matches(Tail(s), chars) ELSE s

\* The decimal digits of usize::MAX on a 64-bit target.
UsizeMaxDigits ==
    <<"1", "8", "4", "4", "6", "7", "4", "4", "0", "7", "3", "7", "0", "9", "5", "5", "1", "6", "1", "5">>

\* Decimal digit strings of equal length: a <= b.
RECURSIVE digits_le(_, _)
digits_le(a, b) ==
    IF a = <<>> THEN TRUE
    ELSE LET x == unwrap(to_digit(Head(a)))
             y == unwrap(to_digit(Head(b)))
         IN  IF x # y THEN x < y ELSE digits_le(Tail(a), Tail(b))

\* str::parse::<usize> of a non-empty run of digits.  The number is kept as
\* its decimal digits without leading zeros, which is also what formatting
\* it with {num} prints; a value above usize::MAX is an error (None).
parse_usize(digits) ==
    LET stripped == trim_start_matches(digits, {"0"})
        canon == IF stripped = <<>> THEN <<"0">> ELSE stripped
    IN  IF Len(canon) > Len(UsizeMaxDigits) THEN None
        ELSE IF Len(canon) = Len(UsizeMaxDigits) /\ ~digits_le(canon, UsizeMaxDigits)
        THEN None
        ELSE Some(canon)

(* --------------------- the parser of tui (line scanner) ---------------- *)

SentinelTitle == <<"(", "N", "o", "n", "e", ")", " ", "T", "y", "p", "e", " ", "y", "o", "u", "r", " ", "a", "n", "s", "w", "e", "r">>

\* The option the parsers append when a question names no free-text option.
SentinelOption == QuestionOption(SentinelTitle, None, TRUE)

is_decision_points_header(line) ==
    LET trimmed == trim(line)
        rest == trim_start(trim_start_matches(trimmed, {"#"}))
        lower == to_ascii_lowercase(rest)
        key == <<"d", "e", "c", "i", "s", "i", "o", "n", " ", "p", "o", "i", "n", "t", "s">>
    IN  IF ~starts_with(lower, key) THEN FALSE
        ELSE LET suffix == SubSeq(rest, Len(key) + 1, Len(rest))
             IN  \/ suffix = <<>>
                 \/ suffix[1] \in {":", "-", EmDash, "<"}
                 \/ is_whitespace(suffix[1])

\* A variant that compares the line as it stands, untrimmed and in its own
\* case.
section_ends_exact(line) ==
    line \in {<<"C", "h", "e", "c", "k", "p", "o", "i", "n", "t", "s">>, <<"R", "o", "l", "l", "b", "a", "c", "k">>, <<"P", "l", "a", "n">>, <<"G", "o", "a", "l">>}

\* The lines that end the scanned region.
section_ends(line) ==
    LET trimmed == trim(line)
    IN  \/ eq_ignore_ascii_case(trimmed, <<"c", "h", "e", "c", "k", "p", "o", "i", "n", "t", "s">>)
        \/ eq_ignore_ascii_case(trimmed, <<"r", "o", "l", "l", "b", "a", "c", "k">>)
        \/ eq_ignore_ascii_case(trimmed, <<"p", "l", "a", "n">>)
        \/ eq_ignore_ascii_case(trimmed, <<"g", "o", "a", "l">>)

split_digits_prefix(s) ==
    LET RECURSIVE count(_)
        count(u) == IF u # <<>> /\ is_ascii_digit(Head(u)) THEN 1 + count(Tail(u)) ELSE 0
        i == count(s)
    IN  IF i = 0 THEN None
        ELSE Some(<<SubSeq(s, 1, i), SubSeq(s, i + 1, Len(s))>>)

parse_numbered_line(line) ==
    LET trimmed == trim_start(line)
        split == split_digits_prefix(trimmed)
    IN  IF split = None THEN None
        ELSE LET digits == unwrap(split)[1]
                 rest == unwrap(split)[2]
             IN  IF rest = <<>> THEN None
                 ELSE IF Head(rest) \notin {")", ".", ":", "-"} THEN None
                 ELSE IF Tail(rest) = <<>> \/ ~is_whitespace(Head(Tail(rest))) THEN None
                 ELSE LET num == parse_usize(digits)
                      IN  IF num = None THEN None
                          ELSE Some(<<unwrap(num), trim_start(Tail(rest))>>)

parse_bullet_line(line) ==
    LET trimmed == trim_start(line)
    IN  IF trimmed = <<>> THEN None
        ELSE IF Head(trimmed) \notin {"-", "*"} THEN None
        ELSE IF Tail(trimmed) = <<>> \/ ~is_whitespace(Head(Tail(trimmed))) THEN None
        ELSE Some(trim_start(Tail(trimmed)))

looks_like_question(rest) ==
    LET lowered == to_ascii_lowercase(rest)
    IN  \/ contains(rest, <<"*", "*">>)
        \/ contains(lowered, <<"s", "i", "n", "g", "l", "e", "-", "s", "e", "l", "e", "c", "t">>)
        \/ contains(lowered, <<"s", "i", "n", "g", "l", "e", " ", "s", "e", "l", "e", "c", "t">>)
        \/ contains(lowered, <<"m", "u", "l", "t", "i", "-", "s", "e", "l", "e", "c", "t">>)
        \/ contains(lowered, <<"m", "u", "l", "t", "i", " ", "s", "e", "l", "e", "c", "t">>)
        \/ contains(lowered, <<"s", "e", "l", "e", "c", "t", " ", "a", "l", "l">>)

\* Returns <<label, rest>>, label an Option.
split_first_bold_block(s) ==
    LET open == find(s, <<"*", "*">>)
    IN  IF open = None THEN <<None, s>>
        ELSE LET i == unwrap(open)
                 start == i + 2
                 close == find(SubSeq(s, start + 1, Len(s)), <<"*", "*">>)
             IN  IF close = None THEN <<None, s>>
                 ELSE LET j == start + unwrap(close)
                          label == trim(SubSeq(s, start + 1, j))
                      IN  IF label = <<>> THEN <<None, s>>
                          ELSE <<Some(label),
                                 SubSeq(s, 1, i) \o SubSeq(s, j + 3, Len(s))>>

parse_question(num, rest) ==
    LET original == trim(rest)
        split == split_first_bold_block(original)
        label == IF split[1] = None THEN <<"Q", "u", "e", "s", "t", "i", "o", "n", " ">> \o num ELSE unwrap(split[1])
        lowered == to_ascii_lowercase(original)
        kind == IF \/ contains(lowered, <<"m", "u", "l", "t", "i", "-", "s", "e", "l", "e", "c", "t">>)
                   \/ contains(lowered, <<"m", "u", "l", "t", "i", " ", "s", "e", "l", "e", "c", "t">>)
                   \/ contains(lowered, <<"s", "e", "l", "e", "c", "t", " ", "a", "l", "l">>)
                THEN "MultiSelect" ELSE "SingleSelect"
        stripped == replace(replace(split[2], <<"(", "s", "i", "n", "g", "l", "e", "-", "s", "e", "l", "e", "c", "t", ")">>, <<>>),
                            <<"(", "m", "u", "l", "t", "i", "-", "s", "e", "l", "e", "c", "t", ")">>, <<>>)
        prompt == normalize_free_text(
                      trim(trim_start_matches(trim(stripped), {":", "-", EmDash})))
    IN  PlanQuestion(label, IF prompt = <<>> THEN original ELSE prompt, kind, <<>>)

parse_option(rest0) ==
    LET rest == trim(rest0)
        rest_lower == to_ascii_lowercase(rest)
        is_free_text == \/ contains(rest_lower, <<"t", "y", "p", "e", " ", "y", "o", "u", "r", " ", "a", "n", "s", "w", "e", "r">>)
                        \/ contains(rest_lower, <<"t", "y", "p", "e", " ", "s", "o", "m", "e", "t", "h", "i", "n", "g">>)
                        \/ contains(rest_lower, <<"(", "n", "o", "n", "e", ")">>)
        hyphen == split_once(rest, <<" ", "-", " ">>)
        dash == split_once(rest, <<" ", EmDash, " ">>)
    IN  IF hyphen # None
        THEN QuestionOption(trim(unwrap(hyphen)[1]), Some(trim(unwrap(hyphen)[2])),
                            is_free_text)
        ELSE IF dash # None
        THEN QuestionOption(trim(unwrap(dash)[1]), Some(trim(unwrap(dash)[2])),
                            is_free_text)
        ELSE QuestionOption(rest, None, is_free_text)

append_option_description(option, line) ==
    LET desc == IF option.description = None THEN <<>> ELSE unwrap(option.description)
    IN  [option EXCEPT !.description =
            Some((IF desc # <<>> THEN desc \o <<" ">> ELSE desc) \o trim(line))]

\* The scanner's locals: questions, current, current_option.
ScanStart == [questions |-> <<>>, current |-> None, current_option |-> None]

\* question.options.push(option) on the open question, when both are open.
push_open_option(st) ==
    IF st.current # None /\ st.current_option # None
    THEN [st EXCEPT !.current = Some([unwrap(st.current) EXCEPT
                        !.options = @ \o <<unwrap(st.current_option)>>]),
                    !.current_option = None]
    ELSE st

\* questions.push(prev) for the open question.
push_open_question(st) ==
    IF st.current # None
    THEN [st EXCEPT !.questions = @ \o <<unwrap(st.current)>>, !.current = None]
    ELSE st

\* Opening an option: the open option, if any, goes to the open question.
open_option(st, rest) ==
    IF st.current # None
    THEN [(IF st.current_option # None THEN push_open_option(st) ELSE st)
            EXCEPT !.current_option = Some(parse_option(rest))]
    ELSE st

\* One pass of the scanning loop over a line that does not end the section.
scan_line(st, line) ==
    LET trimmed == trim(line)
        numbered == parse_numbered_line(line)
        bullet == parse_bullet_line(line)
    IN  IF numbered # None
        THEN LET num == unwrap(numbered)[1]
                 rest == trim(unwrap(numbered)[2])
             IN  IF looks_like_question(rest)
                 THEN LET flushed ==
                              push_open_question(
                                  [push_open_option(st) EXCEPT !.current_option = None])
                      IN  [flushed EXCEPT !.current = Some(parse_question(num, rest))]
                 ELSE open_option(st, rest)
        ELSE IF bullet # None
        THEN open_option(st, trim(unwrap(bullet)))
        ELSE IF st.current_option # None /\ trimmed # <<>>
        THEN [st EXCEPT !.current_option =
                            Some(append_option_description(unwrap(@), trimmed))]
        ELSE st

\* The scanning loop from line i (1-based) on.
RECURSIVE scan_lines(_, _, _)
scan_lines(lines, i, st) ==
    IF i > Len(lines) THEN st
    ELSE IF section_ends(lines[i]) THEN st
    ELSE scan_lines(lines, i + 1, scan_line(st, lines[i]))

\* A variant that scans the message from its first line.
lines_after_header_scans_all(lines) == lines

\* The lines after the first header line; none when there is no header.
lines_after_header(lines) ==
    LET headers == {i \in 1..Len(lines) : is_decision_points_header(lines[i])}
    IN  IF headers = {} THEN <<>>
        ELSE SubSeq(lines, (CHOOSE i \in headers : \A j \in headers : i <= j) + 1,
                    Len(lines))

\* Vec::truncate
truncate(v, len) == IF Len(v) > len THEN SubSeq(v, 1, len) ELSE v

\* Iterator::position of the first option flagged free-text (0-based).
position_free_text(options) ==
    LET hits == {i \in 1..Len(options) : options[i].is_free_text}
    IN  IF hits = {} THEN None
        ELSE Some((CHOOSE i \in hits : \A j \in hits : i <= j) - 1)

\* Vec::remove
remove(v, pos) == SubSeq(v, 1, pos) \o SubSeq(v, pos + 2, Len(v))

\* A variant that appends the sentinel next to a full option list instead
\* of rewriting the last option.
ensure_free_text_last_appends(q) ==
    LET options == truncate(q.options, MaxUiOptions)
        pos == position_free_text(options)
    IN  [q EXCEPT !.options =
            IF pos # None
            THEN remove(options, unwrap(pos)) \o <<options[unwrap(pos) + 1]>>
            ELSE options \o <<SentinelOption>>]

\* A variant that only flags the last option of a full list and keeps its
\* title and description.
ensure_free_text_last_keeps_title(q) ==
    LET options == truncate(q.options, MaxUiOptions)
        pos == position_free_text(options)
    IN  [q EXCEPT !.options =
            IF pos # None
            THEN remove(options, unwrap(pos)) \o <<options[unwrap(pos) + 1]>>
            ELSE IF Len(options) < MaxUiOptions
            THEN options \o <<SentinelOption>>
            ELSE IF options # <<>>
            THEN [options EXCEPT ![Len(options)].is_free_text = TRUE]
            ELSE options]

\* The body of the loop over the questions: cap the options, then make a
\* free-text option the last one.
ensure_free_text_last(q) ==
    LET options == truncate(q.options, MaxUiOptions)
        pos == position_free_text(options)
    IN  [q EXCEPT !.options =
            IF pos # None
            THEN remove(options, unwrap(pos)) \o <<options[unwrap(pos) + 1]>>
            ELSE IF Len(options) < MaxUiOptions
            THEN options \o <<SentinelOption>>
            ELSE IF options # <<>>
            THEN [options EXCEPT ![Len(options)] = SentinelOption]
            ELSE options]

\* A variant that keeps every question it collected.
finish_round_keeps_all(questions) ==
    IF questions = <<>> THEN None
    ELSE Some([questions |-> [i \in 1..Len(questions) |->
                                 ensure_free_text_last(questions[i])]])

\* A variant that keeps the last MaxUiQuestions questions.
finish_round_keeps_last(questions) ==
    IF questions = <<>> THEN None
    ELSE LET kept == SubSeq(questions,
                            IF Len(questions) > MaxUiQuestions
                            THEN Len(questions) - MaxUiQuestions + 1 ELSE 1,
                            Len(questions))
         IN  Some([questions |-> [i \in 1..Len(kept) |-> ensure_free_text_last(kept[i])]])

\* What follows the scanning loop once the open option and question are
\* flushed.
finish_round(questions) ==
    IF questions = <<>> THEN None
    ELSE LET kept == truncate(questions, MaxUiQuestions)
         IN  Some([questions |-> [i \in 1..Len(kept) |-> ensure_free_text_last(kept[i])]])

\* tui: parse_plan_question_round, on text.lines().
parse_plan_question_round(lines) ==
    LET st == scan_lines(lines_after_header(lines), 1, ScanStart)
        flushed == push_open_question(push_open_option(st))
    IN  finish_round(flushed.questions)

(* --------------------- the parser of tui2 (regexes) -------------------- *)

\* \w of the regex, on ASCII.
is_word_char(c) ==
    \/ \E k \in 1..26 : UpperCase[k] = c \/ LowerCase[k] = c
    \/ is_ascii_digit(c)
    \/ c = "_"

\* section_re matches in this line: leading whitespace, "Decision points"
\* in any case, a word boundary, then anything up to the end of the line.
tui2_section_re_is_match(line) ==
    LET rest == trim_start(line)
        key == <<"d", "e", "c", "i", "s", "i", "o", "n", " ", "p", "o", "i", "n", "t", "s">>
    IN  /\ starts_with(to_ascii_lowercase(rest), key)
        /\ \/ Len(rest) = Len(key)
           \/ ~is_word_char(rest[Len(key) + 1])

\* after.lines() for after = &text[start..], start the end of the first
\* match of section_re: the empty rest of the header line, then the lines
\* that follow it.  None when section_re does not match.
tui2_lines_after_section(lines) ==
    LET headers == {i \in 1..Len(lines) : tui2_section_re_is_match(lines[i])}
    IN  IF headers = {} THEN None
        ELSE Some(<<<<>>>> \o
                  SubSeq(lines, (CHOOSE i \in headers : \A j \in headers : i <= j) + 1,
                         Len(lines)))

\* question_re.captures(line): <<indent, num, rest>> or None.
tui2_question_re_captures(line) ==
    LET after_indent == trim_start(line)
        indent == SubSeq(line, 1, Len(line) - Len(after_indent))
        split == split_digits_prefix(after_indent)
    IN  IF split = None THEN None
        ELSE LET num == unwrap(split)[1]
                 tail == unwrap(split)[2]
             IN  IF tail = <<>> \/ Head(tail) \notin {")", "."} THEN None
                 ELSE LET r == Tail(tail)
                      IN  IF Len(r) < 2 \/ ~is_whitespace(Head(r)) THEN None
                          ELSE Some(<<indent, num,
                                      IF trim_start(r) # <<>> THEN trim_start(r)
                                      ELSE <<r[Len(r)]>>>>)

\* The question built in the zero-indent branch of the loop.
tui2_question(num, rest) ==
    LET original == rest
        split == split_first_bold_block(rest)
        label == IF split[1] = None THEN <<"Q", "u", "e", "s", "t", "i", "o", "n", " ">> \o num ELSE unwrap(split[1])
        lowered == to_ascii_lowercase(rest)
        kind == IF \/ contains(lowered, <<"m", "u", "l", "t", "i", "-", "s", "e", "l", "e", "c", "t">>)
                   \/ contains(lowered, <<"m", "u", "l", "t", "i", " ", "s", "e", "l", "e", "c", "t">>)
                   \/ contains(lowered, <<"s", "e", "l", "e", "c", "t", " ", "a", "l", "l">>)
                THEN "MultiSelect" ELSE "SingleSelect"
        stripped == replace(replace(split[2], <<"(", "s", "i", "n", "g", "l", "e", "-", "s", "e", "l", "e", "c", "t", ")">>, <<>>),
                            <<"(", "m", "u", "l", "t", "i", "-", "s", "e", "l", "e", "c", "t", ")">>, <<>>)
        prompt == normalize_free_text(
                      trim(trim_start_matches(trim(stripped), {":", "-", EmDash})))
    IN  PlanQuestion(label, IF prompt = <<>> THEN original ELSE prompt, kind, <<>>)

\* The option built for an indented numbered line; next is the line that
\* follows it, as an Option.  Returns <<option, lines consumed after it>>.
tui2_option(rest, next) ==
    LET rest_lower == to_ascii_lowercase(rest)
        is_free_text == \/ contains(rest_lower, <<"t", "y", "p", "e", " ", "y", "o", "u", "r", " ", "a", "n", "s", "w", "e", "r">>)
                        \/ contains(rest_lower, <<"t", "y", "p", "e", " ", "s", "o", "m", "e", "t", "h", "i", "n", "g">>)
                        \/ contains(rest_lower, <<"(", "n", "o", "n", "e", ")">>)
        hyphen == split_once(rest, <<" ", "-", " ">>)
        dash == split_once(rest, <<" ", EmDash, " ">>)
        title == IF hyphen # None THEN trim(unwrap(hyphen)[1])
                 ELSE IF dash # None THEN trim(unwrap(dash)[1])
                 ELSE rest
        description == IF hyphen # None THEN Some(trim(unwrap(hyphen)[2]))
                       ELSE IF dash # None THEN Some(trim(unwrap(dash)[2]))
                       ELSE None
        takes_next == /\ description = None
                      /\ next # None
                      /\ starts_with(unwrap(next), <<" ", " ", " ", " ", " ">>)
                      /\ tui2_question_re_captures(unwrap(next)) = None
    IN  IF takes_next
        THEN <<QuestionOption(title, Some(trim(unwrap(next))), is_free_text), 1>>
        ELSE <<QuestionOption(title, description, is_free_text), 0>>

\* The scanner's locals; failed is set when a ? operator leaves the function.
Tui2ScanStart == [questions |-> <<>>, current |-> None, failed |-> FALSE]

\* The scanning loop from line i (1-based) on.
RECURSIVE tui2_scan_lines(_, _, _)
tui2_scan_lines(lines, i, st) ==
    IF i > Len(lines) THEN st
    ELSE IF section_ends(lines[i]) THEN st
    ELSE LET cap == tui2_question_re_captures(lines[i])
         IN  IF cap = None THEN tui2_scan_lines(lines, i + 1, st)
             ELSE LET indent == unwrap(cap)[1]
                      num == parse_usize(unwrap(cap)[2])
                      rest == trim(unwrap(cap)[3])
                  IN  IF num = None THEN [st EXCEPT !.failed = TRUE]
                      ELSE IF indent = <<>>
                      THEN tui2_scan_lines(lines, i + 1,
                               [push_open_question(st) EXCEPT
                                   !.current = Some(tui2_question(unwrap(num), rest))])
                      ELSE IF st.current = None
                      THEN tui2_scan_lines(lines, i + 1, st)
                      ELSE LET made == tui2_option(rest,
                                           IF i < Len(lines) THEN Some(lines[i + 1])
                                           ELSE None)
                           IN  tui2_scan_lines(lines, i + 1 + made[2],
                                   [st EXCEPT !.current = Some([unwrap(@) EXCEPT
                                                  !.options = @ \o <<made[1]>>])])

\* The body of the loop over the questions in tui2.
tui2_ensure_free_text_last(q) ==
    LET options == truncate(q.options, MaxUiOptions)
        pos == position_free_text(options)
        fixed == IF pos # None
                 THEN remove(options, unwrap(pos)) \o <<options[unwrap(pos) + 1]>>
                 ELSE IF Len(options) < MaxUiOptions
                 THEN options \o <<SentinelOption>>
                 ELSE IF options # <<>>
                 THEN [options EXCEPT ![Len(options)].is_free_text = TRUE]
                 ELSE options
    IN  [q EXCEPT !.options =
            IF fixed # <<>> THEN [fixed EXCEPT ![Len(fixed)].is_free_text = TRUE]
            ELSE fixed]

\* tui2: parse_plan_question_round, on the lines of the text.
tui2_parse_plan_question_round(lines) ==
    LET after == tui2_lines_after_section(lines)
    IN  IF after = None THEN None
        ELSE LET st == tui2_scan_lines(unwrap(after), 1, Tui2ScanStart)
                 questions == push_open_question(st).questions
             IN  IF st.failed \/ questions = <<>> THEN None
                 ELSE LET kept == truncate(questions, MaxUiQuestions)
                      IN  Some([questions |-> [i \in 1..Len(kept) |->
                                                  tui2_ensure_free_text_last(kept[i])]])

(* ------------------------ the parsers on their own --------------------- *)

\* The kinds of line an agent message is made of here.
LineClasses ==
    {"Header", "Stop", "Question", "Option", "FlatOption", "FreeOption", "Bullet", "Plain"}

\* Numbered option lines at these line numbers carry a description after
\* " - ".
Described(n) == n % 3 = 1

\* The line of a class at line number n of the message; the number makes
\* every label, title and note of a message distinct.  Questions at even
\* line numbers are multi-select.  A Star line is a bullet line with '*',
\* a Blank line is empty.  BoldOption, SingleOption, MultiOption and
\* AllOption lines are indented numbered lines whose text holds a bold span
\* or a select-type word.
LineOf(class, n) ==
    LET d == to_string(n)
        desc == IF Described(n) THEN <<" ", "-", " ", "D">> \o d ELSE <<>>
    IN  CASE class = "Header" -> <<"D", "e", "c", "i", "s", "i", "o", "n", " ", "p", "o", "i", "n", "t", "s">>
          [] class = "Stop" -> <<" ", "G", "O", "A", "L", " ">>
          [] class = "Question" ->
                d \o <<")", " ", "*", "*", "Q">> \o d \o
                (IF n % 2 = 0 THEN <<"*", "*", " ", "(", "m", "u", "l", "t", "i", "-", "s", "e", "l", "e", "c", "t", ")", ":", " ", "P">> ELSE <<"*", "*", " ", "(", "s", "i", "n", "g", "l", "e", "-", "s", "e", "l", "e", "c", "t", ")", ":", " ", "P">>)
                \o d
          [] class = "Option" -> <<" ", " ">> \o d \o <<".", " ", "O">> \o d \o desc
          [] class = "FlatOption" -> d \o <<".", " ", "O">> \o d \o desc
          [] class = "FreeOption" -> <<" ", " ">> \o d \o <<".", " ", "(", "n", "o", "n", "e", ")", " ">> \o d
          [] class = "Bullet" -> <<"-", " ", "B">> \o d
          [] class = "Plain" -> <<" ", " ", " ", " ", " ", "n", "o", "t", "e", " ">> \o d
          [] class = "Star" -> <<"*", " ", "B">> \o d
          [] class = "Blank" -> <<>>
          [] class = "BoldOption" -> <<" ", " ">> \o d \o <<".", " ", "*", "*", "B">> \o d \o <<"*", "*">>
          [] class = "SingleOption" -> <<" ", " ">> \o d \o <<".", " ", "s", "i", "n", "g", "l", "e", "-", "s", "e", "l", "e", "c", "t", " ">> \o d
          [] class = "MultiOption" -> <<" ", " ">> \o d \o <<".", " ", "m", "u", "l", "t", "i", "-", "s", "e", "l", "e", "c", "t", " ">> \o d
          [] class = "AllOption" -> <<" ", " ">> \o d \o <<".", " ", "s", "e", "l", "e", "c", "t", " ", "a", "l", "l", " ">> \o d
          [] class = "Sentinel" -> <<" ", " ">> \o d \o <<".", " ", "(", "N", "o", "n", "e", ")", " ", "T", "y", "p", "e", " ", "y", "o", "u", "r", " ", "a", "n", "s", "w", "e", "r">>

\* Messages of at most maxlen lines after the lines of prefix, every line
\* of one of the classes.
MessagesOver(prefix, classes, maxlen) ==
    UNION {{prefix \o [i \in 1..n |-> LineOf(cs[i], Len(prefix) + i)] :
                cs \in [1..n -> classes]} : n \in 0..maxlen}

\* No dialog is open while the parsers run.
NoDialog ==
    /\ round = [questions |-> <<>>]
    /\ active_tab = 0
    /\ selected_idx = None
    /\ answers = <<>>
    /\ complete = FALSE
    /\ error = None
    /\ free_text_editor = <<>>
    /\ is_editing_free_text = FALSE
    /\ sent = <<>>

dialog_vars ==
    <<round, active_tab, selected_idx, answers, complete, error,
      free_text_editor, is_editing_free_text, sent>>

ParserInit ==
    /\ message \in MessagesOver(<<>>, LineClasses, MaxLines)
    /\ tui_parsed = <<>>
    /\ tui2_parsed = <<>>
    /\ NoDialog
    /\ NoTurn

\* tui hands the message to its parser.
ParseTui ==
    /\ tui_parsed = <<>>
    /\ tui_parsed' = <<parse_plan_question_round(message)>>
    /\ UNCHANGED <<message, tui2_parsed>>
    /\ UNCHANGED dialog_vars
    /\ UNCHANGED prompt_vars

\* tui2 hands the message to its parser.
ParseTui2 ==
    /\ tui2_parsed = <<>>
    /\ tui2_parsed' = <<tui2_parse_plan_question_round(message)>>
    /\ UNCHANGED <<message, tui_parsed>>
    /\ UNCHANGED dialog_vars
    /\ UNCHANGED prompt_vars

ParserNext == ParseTui \/ ParseTui2

\* Short messages over every class of line.
ParserSpec == ParserInit /\ [][ParserNext]_vars

\* Long sections: the header, then question and option lines only.
LongInit ==
    /\ message \in MessagesOver(<<LineOf("Header", 1)>>,
                                {"Question", "Option", "FreeOption"}, MaxLongLines)
    /\ tui_parsed = <<>>
    /\ tui2_parsed = <<>>
    /\ NoDialog
    /\ NoTurn

LongSpec == LongInit /\ [][ParserNext]_vars

\* One section: the header and a question line, then question, option,
\* bullet, continuation and blank lines.
SectionInit ==
    /\ message \in MessagesOver(<<LineOf("Header", 1), LineOf("Question", 2)>>,
                                {"Question", "Option", "Bullet", "Star", "Plain", "Blank"},
                                MaxSectionLines)
    /\ tui_parsed = <<>>
    /\ tui2_parsed = <<>>
    /\ NoDialog
    /\ NoTurn

SectionSpec == SectionInit /\ [][ParserNext]_vars

\* Lines after the first question line of a message of worded options.
MaxWordedLines == 4

\* Worded options: the header and a question line, then question lines and
\* indented numbered lines, some with a bold span or a select-type word.
WordedInit ==
    /\ message \in MessagesOver(<<LineOf("Header", 1), LineOf("Question", 2)>>,
                                {"Question", "Option", "BoldOption", "SingleOption",
                                 "MultiOption", "AllOption"},
                                MaxWordedLines)
    /\ tui_parsed = <<>>
    /\ tui2_parsed = <<>>
    /\ NoDialog
    /\ NoTurn

WordedSpec == WordedInit /\ [][ParserNext]_vars

\* Lines after the first question line of a message that follows the
\* grammar of the developer instructions.
MaxGrammarLines == 7

\* The classes of line of such a message after the header: question lines,
\* option lines (some with a bold title), 5-space-indented description
\* lines and the line of the last option.
GrammarClasses == {"Question", "Option", "BoldOption", "Plain", "Sentinel"}

\* The grammar of PLAN_MODE_DEVELOPER_INSTRUCTIONS over classes of line:
\* the exact header, then questions; a question line is followed by 1 to 4
\* option lines and the line of the last option, "(None) Type your answer";
\* an option line may be followed by one description line.
FollowsGrammar(cs) ==
    LET n == Len(cs)
        IsOption(i) == cs[i] \in {"Option", "BoldOption", "Sentinel"}
        \* the question line the line i stands under
        QuestionOf(i) == CHOOSE q \in 1..i :
                            cs[q] = "Question" /\ \A j \in (q + 1)..i : cs[j] # "Question"
        OptionsUpTo(i) == Cardinality({j \in QuestionOf(i)..i : IsOption(j)})
        \* line i ends the option list of a question
        EndsQuestion(i) ==
            \/ cs[i] = "Sentinel"
            \/ i > 1 /\ cs[i] = "Plain" /\ cs[i - 1] = "Sentinel"
    IN  /\ n >= 2
        /\ cs[1] = "Header"
        /\ cs[2] = "Question"
        /\ EndsQuestion(n)
        /\ \A i \in 3..n :
            /\ cs[i] # "Header"
            /\ cs[i] = "Question" => EndsQuestion(i - 1)
            /\ cs[i] = "Plain" => IsOption(i - 1)
            /\ cs[i] \in {"Option", "BoldOption"} =>
                    /\ ~EndsQuestion(i - 1)
                    /\ OptionsUpTo(i) <= 4
            /\ cs[i] = "Sentinel" =>
                    /\ cs[i - 1] # "Question"
                    /\ ~EndsQuestion(i - 1)

\* The messages that follow the grammar, of at most MaxGrammarLines lines
\* after the first question line.
GrammarMessages ==
    UNION {{[i \in 1..(n + 2) |-> LineOf(cs[i], i)] :
                cs \in {c \in {<<"Header", "Question">> \o tail :
                                    tail \in [1..n -> GrammarClasses]} :
                            FollowsGrammar(c)}} :
            n \in 2..MaxGrammarLines}

GrammarInit ==
    /\ message \in GrammarMessages
    /\ tui_parsed = <<>>
    /\ tui2_parsed = <<>>
    /\ NoDialog
    /\ NoTurn

GrammarSpec == GrammarInit /\ [][ParserNext]_vars

(* ------------------- plan_mode.rs: the developer message --------------- *)

\* The instruction text, by its first line.
PLAN_MODE_DEVELOPER_INSTRUCTIONS == "Plan Mode is enabled."

\* InteractionMode: Plan and one mode that is not Plan.
InteractionModes == {"Plan", "Chat"}

\* ResponseItem::Message
Message(id, role, content) ==
    [type |-> "Message", id |-> id, role |-> role, content |-> content]

\* ContentItem::InputText
InputText(text) == [type |-> "InputText", text |-> text]

\* A ResponseItem that is not a message.
OtherItem(n) == [type |-> "Other", id |-> Some(n)]

is_developer_message(item) == item.type = "Message" /\ item.role = "developer"

\* Vec::insert
insert(v, index, element) ==
    SubSeq(v, 1, index) \o <<element>> \o SubSeq(v, index + 1, Len(v))

\* input.iter().position(|item| !matches!(item, Message { role, .. } if role == "developer"))
position_not_developer(items) ==
    IF \E i \in 1..Len(items) : ~is_developer_message(items[i])
    THEN Some((CHOOSE i \in 1..Len(items) :
                /\ ~is_developer_message(items[i])
                /\ \A j \in 1..(i - 1) : is_developer_message(items[j])) - 1)
    ELSE None

InstructionMessage ==
    Message(None, "developer", <<InputText(PLAN_MODE_DEVELOPER_INSTRUCTIONS)>>)

\* A variant of inject_developer_message that puts the message first.
inject_developer_message_first(items, m) ==
    IF m # "Plan" THEN items ELSE insert(items, 0, InstructionMessage)

inject_developer_message(items, m) ==
    IF m # "Plan" THEN items
    ELSE LET pos == position_not_developer(items)
             insert_at == IF is_some(pos) THEN unwrap(pos) ELSE Len(items)
         IN  insert(items, insert_at, InstructionMessage)

\* The kinds of item of a turn input here.
ItemKinds == {"developer", "user", "other"}

\* The item of a kind at index n of the input; the index makes every item
\* of an input distinct.
ItemOf(kind, n) ==
    IF kind = "other" THEN OtherItem(n)
    ELSE Message(Some(n), kind, <<InputText(to_string(n))>>)

InjectInit ==
    /\ \E n \in 0..MaxItems :
        input \in {[i \in 1..n |-> ItemOf(ks[i], i)] : ks \in [1..n -> ItemKinds]}
    /\ mode \in InteractionModes
    /\ injected = <<>>
    /\ message = <<>>
    /\ tui_parsed = <<>>
    /\ tui2_parsed = <<>>
    /\ NoDialog

\* The turn input is passed through inject_developer_message.
Inject ==
    /\ injected = <<>>
    /\ injected' = <<inject_developer_message(input, mode)>>
    /\ UNCHANGED <<input, mode>>
    /\ UNCHANGED parser_vars
    /\ UNCHANGED dialog_vars

InjectNext == Inject

InjectSpec == InjectInit /\ [][InjectNext]_vars

(* ------------------------------ properties ----------------------------- *)

NumQuestions == Len(round.questions)

AllNonEmpty(ans) == \A i \in 1..Len(ans) : answer_is_nonempty(ans[i])

\* The step appends exactly one message to the channel.
SendsOne == Len(sent') = Len(sent) + 1 /\ SubSeq(sent', 1, Len(sent)) = sent

\* t without its leading and trailing whitespace, by positions.
Trimmed(t) ==
    LET keep == {i \in 1..Len(t) : ~is_whitespace(t[i])}
    IN  IF keep = {} THEN <<>>
        ELSE SubSeq(t, CHOOSE i \in keep : \A j \in keep : i <= j,
                       CHOOSE i \in keep : \A j \in keep : i >= j)

FreeTextOf(answer) ==
    IF is_some(answer.free_text) THEN Trimmed(unwrap(answer.free_text)) ELSE <<>>

\* The lines of s, a line break separating two lines.
RECURSIVE SplitLines(_)
SplitLines(s) ==
    IF \A i \in 1..Len(s) : s[i] # "\n" THEN <<s>>
    ELSE LET brk == CHOOSE i \in 1..Len(s) : s[i] = "\n" /\ \A j \in 1..(i - 1) : s[j] # "\n"
         IN  <<SubSeq(s, 1, brk - 1)>> \o SplitLines(SubSeq(s, brk + 1, Len(s)))

\* Enter pressed on the submit tab while some answer is empty.
RefusedSubmitStep ==
    /\ PressEnter
    /\ ~is_editing_free_text
    /\ active_tab = NumQuestions
    /\ ~AllNonEmpty(answers)

\* Index of the first question whose answer is empty.
FirstEmpty(ans) ==
    CHOOSE i \in 0..(Len(ans) - 1) :
        /\ ~answer_is_nonempty(ans[i + 1])
        /\ \A j \in 0..(i - 1) : answer_is_nonempty(ans[j + 1])

\* C1: over any sequence of events delivered to one dialog, events after
\* completion included, at most one reply is sent on the outbound channel.
C1_AtMostOneReply == Len(sent) <= 1

\* C2: every reply is sent in a step in which every answer is non-empty, is
\* the codec's output for the answers held then, and that step sets complete.
C2_ReplyOnlyWhenAllAnswered ==
    [][sent' # sent =>
        /\ SendsOne
        /\ AllNonEmpty(answers')
        /\ sent'[Len(sent')] = format_answers(round, answers')
        /\ complete']_vars

\* A reply was sent for a round one of whose answers is a free text.
C2_Witness ==
    /\ Len(sent) = 1
    /\ complete
    /\ \E i \in 1..Len(answers) : FreeTextOf(answers[i]) # <<>>

\* C3: Activate on the submit tab while an answer is empty is refused: no
\* reply, complete unchanged (so it stays false), a non-none error, tab 0,
\* free-text mode off and every answer as before.
C3_RefusedSubmit ==
    [][RefusedSubmitStep =>
        /\ sent' = sent
        /\ complete' = complete
        /\ error' # None
        /\ active_tab' = 0
        /\ ~is_editing_free_text'
        /\ answers' = answers]_vars

\* The state a refused submission leaves in a dialog that is not complete.
C3_Witness ==
    /\ error # None
    /\ active_tab = 0
    /\ ~complete
    /\ sent = <<>>
    /\ ~AllNonEmpty(answers)

\* C4: a cancel (Esc in either mode, Ctrl-C) sets complete, sends nothing
\* and leaves the answers alone, and once a dialog was cancelled (it is
\* complete and has sent nothing) no later event sends a reply.
C4_CancelIsSilent ==
    [][/\ (PressEsc \/ CtrlC) => (complete' /\ sent' = sent /\ answers' = answers)
       /\ (complete /\ sent = <<>>) => sent' = sent]_vars

\* No answer has both a non-empty selection and a non-empty trimmed free text.
C5_Exclusive ==
    \A i \in 1..Len(answers) :
        ~(answers[i].selected_option_indices # <<>> /\ FreeTextOf(answers[i]) # <<>>)

\* Enter on an option of the active question, outside the editor.
C5_ActivateClears ==
    (/\ PressEnter
     /\ ~is_editing_free_text
     /\ active_tab < NumQuestions
     /\ is_some(selected_idx)
     /\ unwrap(selected_idx) < Len(round.questions[active_tab + 1].options))
    => IF round.questions[active_tab + 1].options[unwrap(selected_idx) + 1].is_free_text
       THEN /\ answers'[active_tab + 1].selected_option_indices = <<>>
            /\ is_editing_free_text'
       ELSE answers'[active_tab + 1].free_text = None

\* C5: no answer ever has both a non-empty selection and a non-empty
\* trimmed free text; Activate on a free-text option empties the selection,
\* Activate on any other option removes the free text.
C5_MutualExclusion == [](C5_Exclusive) /\ [][C5_ActivateClears]_vars

\* The operator is typing a free text into a multi-select question.
C5_Witness ==
    /\ is_editing_free_text
    /\ active_tab < NumQuestions
    /\ round.questions[active_tab + 1].kind = "MultiSelect"
    /\ Len(round.questions[active_tab + 1].options) > 2
    /\ FreeTextOf(answers[active_tab + 1]) # <<>>

\* Right (or Tab) pressed on the last question tab while some answer is empty.
NavigateToSubmitStep ==
    /\ PressRight
    /\ active_tab = NumQuestions - 1
    /\ ~AllNonEmpty(answers)

\* C6 as stated: navigating to the submit step while an answer is empty
\* ends on tab 0 with a non-none error.
C6_NavigateRefused ==
    [][NavigateToSubmitStep => (active_tab' = 0 /\ error' # None)]_vars

\* C6 as amended: navigating right from the last question while an answer
\* is empty lands on the submit tab, sends nothing, leaves complete and
\* error as they were and leaves free-text mode.
C6_NavigateLandsOnSubmitTab ==
    [][NavigateToSubmitStep =>
        /\ active_tab' = NumQuestions
        /\ sent' = sent
        /\ complete' = complete
        /\ error' = error
        /\ ~is_editing_free_text']_vars

\* The dialog stands on the submit tab with an empty answer and no error.
C6_Witness ==
    /\ active_tab = NumQuestions
    /\ ~AllNonEmpty(answers)
    /\ ~complete
    /\ error = None

\* C7 as stated: after a refused submission the tab is the first question
\* whose answer is empty.
C7_RefusedGoesToFirstUnanswered ==
    [][RefusedSubmitStep => active_tab' = FirstEmpty(answers')]_vars

\* C7 as amended: after a refused submission the tab is 0, which is the
\* first unanswered question exactly when question 0 is unanswered.
C7_RefusedGoesToFirstQuestion ==
    [][RefusedSubmitStep =>
        /\ active_tab' = 0
        /\ (active_tab' = FirstEmpty(answers')) <=> ~answer_is_nonempty(answers'[1])]_vars

\* A refused submission left the dialog on question 0, which is answered,
\* while question 1 is not.
C7_Witness ==
    /\ error # None
    /\ active_tab = 0
    /\ NumQuestions = 2
    /\ answer_is_nonempty(answers[1])
    /\ ~answer_is_nonempty(answers[2])

\* The i-th smallest element of a set of numbers.
NthSmallest(S, i) == CHOOSE x \in S : Cardinality({y \in S : y < x}) = i - 1

\* The line the codec is to emit for one question.
ExpectedLine(question, answer) ==
    LET chosen == {answer.selected_option_indices[i] :
                      i \in 1..Len(answer.selected_option_indices)}
        n == Cardinality(chosen)
    IN  IF FreeTextOf(answer) # <<>> THEN FreeTextOf(answer)
        ELSE IF n = 0 THEN <<>>
        ELSE IF question.kind = "SingleSelect"
             THEN <<Digits[answer.selected_option_indices[1] + 2]>>
        ELSE [k \in 1..(2 * n - 1) |->
                 IF k % 2 = 1 THEN Digits[NthSmallest(chosen, (k + 1) \div 2) + 2]
                 ELSE ","]

RECURSIVE JoinLines(_)
JoinLines(lines) ==
    IF Len(lines) = 1 THEN lines[1]
    ELSE lines[1] \o <<"\n">> \o JoinLines(Tail(lines))

\* C8: the codec emits one line per question, in order: the trimmed free
\* text if it is non-empty, else the 1-based index of the selection
\* (SingleSelect) or the 1-based indices ascending and comma-joined
\* (MultiSelect); {0,2,3} gives "1,3,4" and SingleSelect {1} gives "2".
C8_Encode ==
    sent # <<>> =>
        /\ sent[1] = JoinLines([i \in 1..NumQuestions |->
                                   ExpectedLine(round.questions[i], answers[i])])
        /\ (/\ NumQuestions = 1
            /\ round.questions[1].kind = "MultiSelect"
            /\ answers[1] = QuestionAnswer(<<0, 2, 3>>, None))
           => sent[1] = <<"1", ",", "3", ",", "4">>
        /\ (/\ NumQuestions = 1
            /\ round.questions[1].kind = "SingleSelect"
            /\ answers[1] = QuestionAnswer(<<1>>, None))
           => sent[1] = <<"2">>
        /\ \A i \in 1..NumQuestions :
            (FreeTextOf(answers[i]) # <<>> /\ answers[i].selected_option_indices # <<>>)
            => SplitLines(sent[1])[i] = FreeTextOf(answers[i])

\* The codec was applied to a multi-select answer {0,2,3} followed by an
\* answer holding both a selection and a free text.
C8_Witness ==
    /\ sent # <<>>
    /\ NumQuestions = 2
    /\ round.questions[1].kind = "MultiSelect"
    /\ answers[1] = QuestionAnswer(<<0, 2, 3>>, None)
    /\ answers[2] = QuestionAnswer(<<1>>, Some(<<" ", "1">>))
    /\ sent[1] = <<"1", ",", "3", ",", "4", "\n", "1">>

\* C9: every reply for a round of K questions is K non-empty lines, line
\* i being that of question i, and no free text holds a line break when
\* it reaches the codec.
C9_ReplyHasOneLinePerQuestion ==
    [][sent' # sent =>
        LET lines == SplitLines(sent'[Len(sent')])
        IN  /\ Len(lines) = NumQuestions
            /\ \A i \in 1..NumQuestions :
                /\ lines[i] # <<>>
                /\ is_some(answers'[i].free_text) =>
                     \A k \in 1..Len(unwrap(answers'[i].free_text)) :
                        unwrap(answers'[i].free_text)[k] # "\n"
                /\ IF FreeTextOf(answers'[i]) # <<>>
                   THEN lines[i] = FreeTextOf(answers'[i])
                   ELSE \A k \in 1..Len(lines[i]) :
                            lines[i][k] = "," \/ is_some(to_digit(lines[i][k]))]_vars

\* A two-question reply was sent whose second line is a typed free text.
C9_Witness ==
    /\ Len(sent) = 1
    /\ NumQuestions = 2
    /\ FreeTextOf(answers[2]) # <<>>
    /\ Len(SplitLines(sent[1])) = 2

AllSingleSelect == \A i \in 1..NumQuestions : round.questions[i].kind = "SingleSelect"

\* The dialog after k quick selections from its initial state: on tab k,
\* the first k answers one selection each, the others untouched.
QuickSelected(k) ==
    /\ active_tab = k
    /\ ~complete
    /\ sent = <<>>
    /\ ~is_editing_free_text
    /\ \A i \in 1..NumQuestions :
        IF i <= k
        THEN Len(answers[i].selected_option_indices) = 1 /\ answers[i].free_text = None
        ELSE answers[i] = DefaultAnswer

\* Digit d pressed outside the editor, naming an option of the active
\* question that is not a free-text option.
QuickSelectStep(d) ==
    /\ Accepting
    /\ ~is_editing_free_text
    /\ active_tab < NumQuestions
    /\ d - 1 < Len(round.questions[active_tab + 1].options)
    /\ ~round.questions[active_tab + 1].options[d].is_free_text
    /\ Becomes(handle_key_event(View, CharKey(Digits[d + 1]), 0))

\* C10: in a round of N SingleSelect questions the initial state is
\* QuickSelected(0); a quick selection in QuickSelected(k) records the
\* digit and, for k + 1 < N, leads to QuickSelected(k + 1) (not complete);
\* for k + 1 = N it completes and sends exactly one reply, the chosen
\* digits one per line.
C10_QuickSelectAdvances ==
    /\ AllSingleSelect => QuickSelected(0)
    /\ [][\A d \in 1..MaxOptions :
            (AllSingleSelect /\ QuickSelected(active_tab) /\ QuickSelectStep(d)) =>
                /\ answers' = [answers EXCEPT ![active_tab + 1] = QuestionAnswer(<<d - 1>>, None)]
                /\ IF active_tab + 1 < NumQuestions
                   THEN active_tab' = active_tab + 1 /\ ~complete' /\ sent' = <<>>
                        /\ ~is_editing_free_text'
                   ELSE /\ complete'
                        /\ sent' = <<[k \in 1..(2 * NumQuestions - 1) |->
                                        IF k % 2 = 1
                                        THEN Digits[answers'[(k + 1) \div 2]
                                                        .selected_option_indices[1] + 2]
                                        ELSE "\n"]>>]_vars

\* Two SingleSelect questions answered 1 and 1: complete, reply "1\n1".
C10_Witness ==
    /\ AllSingleSelect
    /\ NumQuestions = 2
    /\ complete
    /\ active_tab = 2
    /\ sent = <<<<"1", "\n", "1">>>>


(* ------------------------ properties of the parsers -------------------- *)

\* What the parsers that have run returned.
ParserResults ==
    (IF tui_parsed # <<>> THEN {tui_parsed[1]} ELSE {})
    \cup (IF tui2_parsed # <<>> THEN {tui2_parsed[1]} ELSE {})

\* The Rounds among them.
ParsedRounds == {unwrap(r) : r \in {x \in ParserResults : x # None}}

\* The 1-based positions of the options flagged free-text.
FreeTextPositions(q) == {i \in 1..Len(q.options) : q.options[i].is_free_text}

\* C11: every question of every Round a parser returns has exactly one
\* option flagged free-text, and that option is the last of the list, also
\* when several option lines of the question match a free-text phrase.
C11_OneFreeTextOptionLast ==
    \A r \in ParsedRounds : \A i \in 1..Len(r.questions) :
        FreeTextPositions(r.questions[i]) = {Len(r.questions[i].options)}

\* C12: every question of every Round a parser returns has between 2 and
\* 5 options, also when no option line, or one free-text option line only,
\* follows the question line.
C12_TwoToFiveOptions ==
    \A r \in ParsedRounds : \A i \in 1..Len(r.questions) :
        /\ 2 <= Len(r.questions[i].options)
        /\ Len(r.questions[i].options) <= 5

\* Line i of the message is the line of this class.
IsLine(i, class) == i \in 1..Len(message) /\ message[i] = LineOf(class, i)

\* The header line the scan starts after; 0 when the message has none.
HeaderAt ==
    IF \E i \in 1..Len(message) : IsLine(i, "Header")
    THEN CHOOSE i \in 1..Len(message) :
            IsLine(i, "Header") /\ \A j \in 1..(i - 1) : ~IsLine(j, "Header")
    ELSE 0

\* The lines of the scanned region: after the header, before the first
\* stop line that follows the header.
ScannedLines ==
    IF HeaderAt = 0 THEN {}
    ELSE {i \in (HeaderAt + 1)..Len(message) :
            \A j \in (HeaderAt + 1)..i : ~IsLine(j, "Stop")}

\* The question lines of the scanned region.
QuestionLines == {i \in ScannedLines : IsLine(i, "Question")}

\* C13: tui's parser returns none or a Round of 1 to 5 questions, and it
\* returns a Round exactly when the scanned region has a question line.
C13_OneToFiveQuestions ==
    tui_parsed # <<>> =>
        LET r == tui_parsed[1]
        IN  /\ r # None => Len(unwrap(r).questions) \in 1..5
            /\ r # None <=> QuestionLines # {}

\* A section of more than five question lines has been parsed by tui.
C13_Witness ==
    /\ tui_parsed # <<>>
    /\ Cardinality(QuestionLines) > 5
    /\ tui_parsed[1] # None
    /\ Len(unwrap(tui_parsed[1]).questions) = 5

\* The label a question line at line n gives its question.
LabelAt(n) == <<"Q">> \o to_string(n)

\* The title an option line gives its option.
TitleAt(n) ==
    IF IsLine(n, "FreeOption") THEN <<"(", "n", "o", "n", "e", ")", " ">> \o to_string(n)
    ELSE IF IsLine(n, "Bullet") THEN <<"B">> \o to_string(n)
    ELSE <<"O">> \o to_string(n)

\* The option lines of the message, whatever their place.
IsOptionLine(n) ==
    \/ IsLine(n, "Option") \/ IsLine(n, "FlatOption")
    \/ IsLine(n, "FreeOption") \/ IsLine(n, "Bullet")

\* Every label and every title of the Round comes from a line among ns, or
\* is the sentinel's title.
TakenFrom(r, ns) ==
    \A k \in 1..Len(r.questions) :
        /\ \E n \in ns : IsLine(n, "Question") /\ r.questions[k].label = LabelAt(n)
        /\ \A j \in 1..Len(r.questions[k].options) :
            \/ r.questions[k].options[j].title = SentinelTitle
            \/ \E n \in ns : IsOptionLine(n) /\ r.questions[k].options[j].title = TitleAt(n)

\* C14: tui's parser returns none when the message has no header line and
\* when no question line follows the header; what it returns is what it
\* returns for the message from the header on, and every label and title
\* in it comes from a line after the header.
C14_NoneWithoutHeaderOrQuestion ==
    tui_parsed # <<>> =>
        LET r == tui_parsed[1]
        IN  /\ HeaderAt = 0 => r = None
            /\ QuestionLines = {} => r = None
            /\ r # None => TakenFrom(unwrap(r), (HeaderAt + 1)..Len(message))
            /\ HeaderAt > 0 =>
                r = parse_plan_question_round(SubSeq(message, HeaderAt, Len(message)))

\* tui has parsed a message with a question line and an option line before
\* the header and a question after it.
C14_Witness ==
    /\ tui_parsed # <<>>
    /\ tui_parsed[1] # None
    /\ HeaderAt = 3
    /\ IsLine(1, "Question")
    /\ IsOptionLine(2)

\* tui has parsed a message whose header is followed by a bullet line only.
C14_WitnessBulletOnly ==
    /\ tui_parsed = <<None>>
    /\ HeaderAt = 1
    /\ Len(message) = 2
    /\ IsLine(2, "Bullet")

\* The elements of a finite set of numbers, ascending.
RECURSIVE Ascending(_)
Ascending(S) ==
    IF S = {} THEN <<>>
    ELSE LET m == CHOOSE x \in S : \A y \in S : x <= y
         IN  <<m>> \o Ascending(S \ {m})

\* The question lines of the scanned region in textual order.
QuestionLineSeq == Ascending(QuestionLines)

\* The option lines that follow the k-th question line, up to the next
\* question line, in textual order.
OptionLinesOf(k) ==
    LET qs == QuestionLineSeq
        from == qs[k]
        to == IF k < Len(qs) THEN qs[k + 1] ELSE Len(message) + 1
    IN  Ascending({n \in ScannedLines : from < n /\ n < to /\ IsOptionLine(n)})

\* The first five of them.
KeptOptionLinesOf(k) ==
    LET all == OptionLinesOf(k)
    IN  SubSeq(all, 1, IF Len(all) > 5 THEN 5 ELSE Len(all))

\* The description an option line carries.
DescriptionAt(n) ==
    IF (IsLine(n, "Option") \/ IsLine(n, "FlatOption")) /\ Described(n)
    THEN Some(<<"D">> \o to_string(n))
    ELSE None

\* The option an option line stands for.
OptionAt(n) == QuestionOption(TitleAt(n), DescriptionAt(n), IsLine(n, "FreeOption"))

\* The line among lines an option was taken from, by its title; 0 for an
\* option that none of them gives.
SourceLine(lines, option) ==
    LET from == {n \in {lines[j] : j \in 1..Len(lines)} : option.title = TitleAt(n)}
    IN  IF from = {} THEN 0 ELSE CHOOSE n \in from : TRUE

SourceLines(k, options) ==
    LET lines == OptionLinesOf(k)
    IN  [j \in 1..Len(options) |-> SourceLine(lines, options[j])]

\* The Round has the first five questions of the scanned region, in order.
FirstFiveQuestions(r) ==
    LET qs == QuestionLineSeq
    IN  /\ Len(r.questions) = IF Len(qs) > 5 THEN 5 ELSE Len(qs)
        /\ \A k \in 1..Len(r.questions) : r.questions[k].label = LabelAt(qs[k])

\* Every option of the k-th question that a line gives is one of the first
\* five options that followed the question line, as that line gives it,
\* but for the flag of the last option.
OptionsThatFollowed(r, k) ==
    LET options == r.questions[k].options
        src == SourceLines(k, options)
        keptSeq == KeptOptionLinesOf(k)
        kept == {keptSeq[j] : j \in 1..Len(keptSeq)}
    IN  /\ Len(options) <= 5
        /\ \A j \in 1..Len(options) :
              LET n == src[j]
              IN  n # 0 =>
                    /\ n \in kept
                    /\ [options[j] EXCEPT !.is_free_text = FALSE]
                            = [OptionAt(n) EXCEPT !.is_free_text = FALSE]
                    /\ j < Len(options) => options[j] = OptionAt(n)

\* The options of the k-th question that a line gives stand in the order
\* of their lines.
InTextualOrder(r, k) ==
    LET src == SourceLines(k, r.questions[k].options)
    IN  \A i, j \in 1..Len(src) : i < j /\ src[i] # 0 /\ src[j] # 0 => src[i] < src[j]

\* The same, but for the first kept option flagged free-text, which is the
\* last option of the question.
InTextualOrderButFreeText(r, k) ==
    LET src == SourceLines(k, r.questions[k].options)
        kept == KeptOptionLinesOf(k)
        flagged == {j \in 1..Len(kept) : IsLine(kept[j], "FreeOption")}
    IN  IF flagged # {}
        THEN LET f == kept[CHOOSE j \in flagged : \A i \in flagged : j <= i]
             IN  src = Ascending({kept[j] : j \in 1..Len(kept)} \ {f}) \o <<f>>
        ELSE IF Len(kept) < 5
        THEN src = kept \o <<0>>
        ELSE Len(src) = 5 /\ SubSeq(src, 1, 4) = SubSeq(kept, 1, 4)

\* C15 as stated: a Round of a section of more than 5 question lines has
\* exactly the first 5 questions, in order, each with the options that
\* followed it; options after the fifth of a question are dropped and the
\* kept options stand in textual order.
C15_KeptOptionsInTextualOrder ==
    \A r \in ParsedRounds :
        /\ FirstFiveQuestions(r)
        /\ \A k \in 1..Len(r.questions) : OptionsThatFollowed(r, k) /\ InTextualOrder(r, k)

\* C15 as amended: the same, except that the first kept option flagged
\* free-text is moved to the end of its question's list.
C15_FirstFiveInOrderFreeTextLast ==
    \A r \in ParsedRounds :
        /\ FirstFiveQuestions(r)
        /\ \A k \in 1..Len(r.questions) :
                OptionsThatFollowed(r, k) /\ InTextualOrderButFreeText(r, k)

\* Both parsers have parsed a section of more than five question lines, one
\* of the first five followed by an option line.
C15_Witness ==
    /\ tui_parsed # <<>> /\ tui2_parsed # <<>>
    /\ Len(QuestionLineSeq) > 5
    /\ \E k \in 1..5 : OptionLinesOf(k) # <<>>
    /\ \A r \in ParserResults : r # None /\ Len(unwrap(r).questions) = 5

\* Both parsers have parsed a question followed by more than five option
\* lines, a free-text one among the first five and not the last of them.
C15_WitnessOptions ==
    /\ tui_parsed # <<>> /\ tui2_parsed # <<>>
    /\ Len(QuestionLineSeq) = 1
    /\ Len(OptionLinesOf(1)) > 5
    /\ IsLine(OptionLinesOf(1)[2], "FreeOption")
    /\ \A r \in ParserResults : r # None /\ Len(unwrap(r).questions[1].options) = 5

\* The k-th question line is followed by exactly five option lines, none
\* of them flagged free-text.
FiveExplicitOptions(k) ==
    LET lines == OptionLinesOf(k)
    IN  Len(lines) = 5 /\ \A j \in 1..5 : ~IsLine(lines[j], "FreeOption")

\* C16: a question with 5 explicit options, none flagged free-text, comes
\* back with exactly 5 options: the first four are the first four parsed
\* options, unchanged and in order, and the last is flagged free-text.
C16_FifthOptionBecomesFreeText ==
    \A r \in ParsedRounds : \A k \in 1..Len(r.questions) :
        FiveExplicitOptions(k) =>
            LET options == r.questions[k].options
                lines == OptionLinesOf(k)
            IN  /\ Len(options) = 5
                /\ \A j \in 1..4 : options[j] = OptionAt(lines[j])
                /\ options[5].is_free_text

\* Both parsers have parsed a question with five explicit options.
C16_Witness ==
    /\ tui_parsed # <<>> /\ tui2_parsed # <<>>
    /\ \A r \in ParserResults : r # None
    /\ QuestionLines # {}
    /\ FiveExplicitOptions(1)

\* The first five option lines after the k-th question line exist and none
\* is flagged free-text: the parsers force the fifth into the free-text
\* role.
FifthIsForced(k) ==
    LET lines == OptionLinesOf(k)
    IN  Len(lines) >= 5 /\ \A j \in 1..5 : ~IsLine(lines[j], "FreeOption")

\* C17: when the fifth option is forced into the free-text role, tui gives
\* it the title "(None) Type your answer" and no description, while tui2
\* only flags it and keeps its title and description.
C17_ParsersDifferOnForcedOption ==
    (tui_parsed # <<>> /\ tui2_parsed # <<>>) =>
        \A k \in 1..Len(QuestionLineSeq) :
            (k <= 5 /\ FifthIsForced(k)) =>
                LET fifth == OptionAt(OptionLinesOf(k)[5])
                    tui == unwrap(tui_parsed[1]).questions[k].options[5]
                    tui2 == unwrap(tui2_parsed[1]).questions[k].options[5]
                IN  /\ tui = QuestionOption(SentinelTitle, None, TRUE)
                    /\ tui2 = QuestionOption(fifth.title, fifth.description, TRUE)
                    /\ tui # tui2

\* Both parsers have parsed a question whose fifth option, with a
\* description, is forced into the free-text role.
C17_Witness ==
    /\ tui_parsed # <<>> /\ tui2_parsed # <<>>
    /\ QuestionLines # {}
    /\ FifthIsForced(1)
    /\ DescriptionAt(OptionLinesOf(1)[5]) # None

\* The first stop line after the header; 0 when there is none.
StopAt ==
    LET stops == {i \in (HeaderAt + 1)..Len(message) : HeaderAt > 0 /\ IsLine(i, "Stop")}
    IN  IF stops = {} THEN 0 ELSE CHOOSE i \in stops : \A j \in stops : i <= j

\* The header line and the lines of the scanned region.
ScannedRegion ==
    IF HeaderAt = 0 THEN <<>>
    ELSE SubSeq(message, HeaderAt, IF StopAt = 0 THEN Len(message) ELSE StopAt - 1)

\* The parsers that have run returned what they return for these lines.
SameResultsFor(lines) ==
    /\ tui_parsed # <<>> => tui_parsed[1] = parse_plan_question_round(lines)
    /\ tui2_parsed # <<>> => tui2_parsed[1] = tui2_parse_plan_question_round(lines)

\* The line numbers whose digit occurs in a text.  Every label, prompt,
\* title, description and note of a line carries the line's number.
NumbersIn(t) == {n \in 1..9 : \E i \in 1..Len(t) : t[i] = Digits[n + 1]}

\* The line numbers that occur in the texts of a Round.
NumbersInRound(r) ==
    UNION {NumbersIn(r.questions[k].label) \cup NumbersIn(r.questions[k].prompt)
           \cup UNION {NumbersIn(r.questions[k].options[j].title)
                       \cup (IF r.questions[k].options[j].description = None THEN {}
                             ELSE NumbersIn(unwrap(r.questions[k].options[j].description)))
                       : j \in 1..Len(r.questions[k].options)}
           : k \in 1..Len(r.questions)}

C18_WitnessBeforeHeader ==
    /\ tui_parsed # <<>> /\ tui2_parsed # <<>>
    /\ \A r \in ParserResults : r # None
    /\ HeaderAt > 1
    /\ IsLine(1, "Stop")

\* The message with the unindented option lines under an open question
\* indented.
Indented ==
    [i \in 1..Len(message) |->
        IF /\ IsLine(i, "FlatOption")
           /\ i \in ScannedLines
           /\ \E q \in QuestionLines : q < i
        THEN LineOf("Option", i)
        ELSE message[i]]

\* The question a question line at line n opens, with these options.
QuestionAt(n, options) ==
    PlanQuestion(LabelAt(n), <<"P">> \o to_string(n),
                 IF n % 2 = 0 THEN "MultiSelect" ELSE "SingleSelect", options)

\* C19: a question line followed by unindented numbered option lines comes
\* back as one question with the line's label and prompt and those options
\* followed by the sentinel; a numbered line without bold span or
\* select-type keyword is an option of the open question whatever its
\* indentation, so indenting such lines changes nothing.
C19_UnindentedOptions ==
    /\ SameResultsFor(Indented)
    /\ (/\ Len(message) = 4
        /\ IsLine(1, "Header") /\ IsLine(2, "Question")
        /\ IsLine(3, "FlatOption") /\ IsLine(4, "FlatOption"))
       => \A r \in ParserResults :
            r = Some([questions |->
                        <<QuestionAt(2, <<OptionAt(3), OptionAt(4), SentinelOption>>)>>])

\* The separators a numbered line may have after its number.
Separators == {")", ".", ":", "-"}

\* The lines with the separator of the numbered line i replaced.
WithSeparatorAt(lines, i, sep) ==
    LET line == lines[i]
        indent == Len(line) - Len(trim_start(line))
        RECURSIVE digits(_)
        digits(p) == IF p <= Len(line) /\ is_ascii_digit(line[p]) THEN 1 + digits(p + 1) ELSE 0
        at == indent + digits(indent + 1) + 1
    IN  IF /\ at > indent + 1
           /\ at < Len(line)
           /\ line[at] \in Separators
           /\ is_whitespace(line[at + 1])
        THEN [lines EXCEPT ![i] = [line EXCEPT ![at] = sep]]
        ELSE lines

\* C20: the separator after the leading number of a question line or an
\* option line does not affect the result: with ')', '.', ':' or '-' in
\* its place the parsers return the same.
C20_SeparatorDoesNotMatter ==
    \A i \in 1..Len(message) : \A sep \in Separators :
        SameResultsFor(WithSeparatorAt(message, i, sep))

\* Line i of the message is a bullet line, with '-' or with '*'.
IsBulletLine(i) == IsLine(i, "Bullet") \/ IsLine(i, "Star")

\* The numbered option line with the text of the bullet line at line n.
NumberedLike(n) == <<" ", " ">> \o to_string(n) \o <<".", " ", "B">> \o to_string(n)

\* The message with the bullet lines under an open question replaced by
\* numbered option lines with the same text.
Numbered ==
    [i \in 1..Len(message) |->
        IF /\ IsBulletLine(i)
           /\ i \in ScannedLines
           /\ \E q \in QuestionLines : q < i
        THEN NumberedLike(i)
        ELSE message[i]]

\* The option a bullet line at line n stands for.
BulletOptionAt(n) == QuestionOption(<<"B">> \o to_string(n), None, FALSE)

\* C21: bullet lines ('-' or '*', then whitespace) under an open question
\* give the options that numbered option lines with the same text give, and
\* a bullet line never opens a question: the questions of the result are
\* those of the question lines; "- B3", "- B4" after a question line give
\* the options B3, B4 and the sentinel.
C21_BulletsLikeNumberedOptions ==
    /\ SameResultsFor(Numbered)
    /\ \A r \in ParserResults :
        IF QuestionLines = {} THEN r = None
        ELSE r # None /\ FirstFiveQuestions(unwrap(r))
    /\ (/\ Len(message) = 4
        /\ IsLine(1, "Header") /\ IsLine(2, "Question")
        /\ IsBulletLine(3) /\ IsBulletLine(4))
       => \A r \in ParserResults :
            r = Some([questions |->
                        <<QuestionAt(2, <<BulletOptionAt(3), BulletOptionAt(4),
                                          SentinelOption>>)>>])

\* Line n is an option line of a one-section message.
IsSectionOptionLine(n) == IsLine(n, "Option") \/ IsBulletLine(n)

\* The title an option line of a one-section message gives its option.
SectionTitleAt(n) == (IF IsBulletLine(n) THEN <<"B">> ELSE <<"O">>) \o to_string(n)

\* The plain continuation lines that follow the option line n before the
\* next question or option line, in textual order; blank lines between
\* them do not end the run.
ContinuationOf(n) ==
    Ascending({m \in ScannedLines :
                /\ m > n
                /\ IsLine(m, "Plain")
                /\ \A p \in (n + 1)..(m - 1) : IsLine(p, "Plain") \/ IsLine(p, "Blank")})

\* The text of the continuation line m, trimmed.
NoteAt(m) == <<"n", "o", "t", "e", " ">> \o to_string(m)

RECURSIVE SpaceJoined(_)
SpaceJoined(parts) ==
    IF parts = <<>> THEN <<>>
    ELSE IF Len(parts) = 1 THEN parts[1]
    ELSE parts[1] \o <<" ">> \o SpaceJoined(Tail(parts))

\* The description of the option of line n: what the line itself carries
\* after " - ", then its continuation lines, one space between two parts.
JoinedDescription(n) ==
    LET own == IF IsLine(n, "Option") /\ Described(n)
               THEN <<<<"D">> \o to_string(n)>> ELSE <<>>
        cont == ContinuationOf(n)
        parts == own \o [j \in 1..Len(cont) |-> NoteAt(cont[j])]
    IN  IF parts = <<>> THEN None ELSE Some(SpaceJoined(parts))

\* C22: every non-empty plain continuation line that follows an option line
\* (before the next question, option or stop line) is appended, trimmed and
\* space-joined in textual order, to the description of that option; two
\* continuation lines give one description with a single space between
\* them, and blank lines are skipped without closing the option.
C22_ContinuationLinesJoined ==
    \A r \in ParsedRounds : \A k \in 1..Len(r.questions) :
        \A j \in 1..Len(r.questions[k].options) :
            \A n \in ScannedLines :
                (IsSectionOptionLine(n) /\ r.questions[k].options[j].title = SectionTitleAt(n))
                => r.questions[k].options[j].description = JoinedDescription(n)

(* --------------------- properties of plan_mode.rs ---------------------- *)

\* The number of developer messages at the head of the items.
RECURSIVE LeadingDeveloperMessages(_)
LeadingDeveloperMessages(items) ==
    IF items # <<>> /\ Head(items).type = "Message" /\ Head(items).role = "developer"
    THEN 1 + LeadingDeveloperMessages(Tail(items))
    ELSE 0

\* The items without the one at 0-based index k.
Without(items, k) == SubSeq(items, 1, k) \o SubSeq(items, k + 2, Len(items))

\* C25: in Plan mode inject_developer_message returns the input with one
\* developer message carrying the instruction text inserted at the index
\* equal to the number of leading developer messages (at the end when every
\* item is a developer message), the input items in their order around it;
\* in any other mode it returns the input unchanged.
C25_InstructionAfterLeadingDeveloperMessages ==
    injected # <<>> =>
        LET out == injected[1]
            k == LeadingDeveloperMessages(input)
        IN  IF mode = "Plan"
            THEN /\ Len(out) = Len(input) + 1
                 /\ out[k + 1].type = "Message"
                 /\ out[k + 1].role = "developer"
                 /\ out[k + 1].content = <<InputText(PLAN_MODE_DEVELOPER_INSTRUCTIONS)>>
                 /\ out[k + 1].id = None
                 /\ Without(out, k) = input
            ELSE out = input

\* A Plan mode input of two developer messages, another item and a third
\* developer message has been passed through inject_developer_message.
C25_Witness ==
    /\ injected # <<>>
    /\ mode = "Plan"
    /\ Len(input) = 4
    /\ LeadingDeveloperMessages(input) = 2
    /\ input[4].type = "Message" /\ input[4].role = "developer"
    /\ Len(injected[1]) = 5

\* An input made of developer messages only has been passed through
\* inject_developer_message in Plan mode.
C25_WitnessAllDeveloper ==
    /\ injected # <<>>
    /\ mode = "Plan"
    /\ Len(input) = 3
    /\ LeadingDeveloperMessages(input) = 3

(* ----------------------- more properties of the dialog ----------------- *)

\* C23: in every reachable dialog state the answers are as many as the
\* questions and active_tab is between 0 and the number of questions; no
\* sequence of key events takes it out of that range.
C23_TabAndAnswersInRange ==
    /\ Len(answers) = NumQuestions
    /\ active_tab \in 0..NumQuestions

\* After a refused submission the operator has navigated to the submit tab
\* again.
C23_Witness ==
    /\ NumQuestions = 2
    /\ active_tab = NumQuestions
    /\ error # None
    /\ ~complete

\* C24: in every reachable dialog state the selected indices of every
\* answer are strictly ascending, each is an index of an option of the
\* question that is not a free-text option, and a SingleSelect question
\* has at most one.
C24_SelectedIndicesWellFormed ==
    \A i \in 1..Len(answers) :
        LET sel == answers[i].selected_option_indices
            q == round.questions[i]
        IN  /\ \A p \in 1..(Len(sel) - 1) : sel[p] < sel[p + 1]
            /\ \A p \in 1..Len(sel) :
                /\ sel[p] \in 0..(Len(q.options) - 1)
                /\ ~q.options[sel[p] + 1].is_free_text
            /\ q.kind = "SingleSelect" => Len(sel) <= 1

\* Both listed options of a MultiSelect question are selected while a
\* SingleSelect question holds one selection.
C24_Witness ==
    /\ NumQuestions = 2
    /\ round.questions[1].kind = "MultiSelect"
    /\ round.questions[2].kind = "SingleSelect"
    /\ answers[1].selected_option_indices = <<0, 1>>
    /\ Len(answers[2].selected_option_indices) = 1

\* The answers once a pending free-text edit is committed: while editing,
\* the normalized editor buffer is the free text of the active answer.
CommittedAnswers ==
    IF /\ is_editing_free_text
       /\ active_tab < Len(answers)
       /\ is_some(answers[active_tab + 1].free_text)
    THEN [answers EXCEPT ![active_tab + 1].free_text =
                            Some(normalize_free_text(free_text_editor))]
    ELSE answers

\* The option cursor after a reset on tab t.
CursorOnTab(t) ==
    IF t < NumQuestions THEN Some(0) ELSE None

\* The view after navigating right from the current state, an answer
\* being empty or the new tab not being the submit tab: no reply, complete
\* as before, out of free-text mode, the option cursor reset.
Advanced(after) ==
    /\ after.sent = sent
    /\ after.complete = complete
    /\ ~after.is_editing_free_text
    /\ after.selected_idx = CursorOnTab(after.active_tab)

\* The view after a submission from the current state: one more message
\* on the channel, the codec's output for the answers, and complete set.
Submitted(after) ==
    /\ after.sent = Append(sent, format_answers(round, after.answers))
    /\ after.complete

\* C26: NavigateRight (Right or Tab, in either mode) at a tab before the
\* submit tab commits a pending free-text edit and moves one tab right; if
\* that is the submit tab and every answer is non-empty the reply is sent
\* and complete is set, otherwise free-text mode is left and the option
\* cursor reset; on the submit tab it changes nothing.  Stated of what the
\* key handler makes of the key in every reachable state.
C26_NavigateRight ==
    \A code \in {"Right", "Tab"} :
        LET after == handle_key_event(View, Key(code), 0)
        IN  IF active_tab < NumQuestions
            THEN /\ after.active_tab = active_tab + 1
                 /\ after.answers = CommittedAnswers
                 /\ IF after.active_tab = NumQuestions /\ AllNonEmpty(after.answers)
                    THEN Submitted(after)
                    ELSE Advanced(after)
            ELSE after = View

\* A free text was committed on question 0 and the dialog stands on
\* question 1, out of free-text mode, nothing sent.
C26_Witness ==
    /\ NumQuestions = 2
    /\ active_tab = 1
    /\ ~is_editing_free_text
    /\ answers[1].free_text = Some(<<"1">>)
    /\ answers[2] = DefaultAnswer
    /\ free_text_editor = <<"1">>
    /\ sent = <<>>
    /\ ~complete

\* C27: NavigateLeft (the Left key) at a tab after the first commits a
\* pending free-text edit, moves one tab left, resets the option cursor and
\* leaves free-text mode, also while the operator is editing free text; on
\* the first tab it changes nothing.  Stated of what the key handler makes
\* of the Left key in every reachable state.
C27_NavigateLeft ==
    \A pos \in CursorPositions :
        LET after == handle_key_event(View, Key("Left"), pos)
        IN  IF active_tab > 0
            THEN /\ after.active_tab = active_tab - 1
                 /\ after.answers = CommittedAnswers
                 /\ after.selected_idx = CursorOnTab(active_tab - 1)
                 /\ ~after.is_editing_free_text
            ELSE after = View

\* The same outside the editor only.
C27_NavigateLeftOutsideEditor == ~is_editing_free_text => C27_NavigateLeft

ActiveQuestion == round.questions[active_tab + 1]

ActiveAnswer == answers[active_tab + 1]

\* The option cursor, or a digit key, can name option idx of the active
\* question outside the editor.
CanActivate(idx) ==
    /\ ~is_editing_free_text
    /\ active_tab < NumQuestions
    /\ idx < Len(ActiveQuestion.options)

\* What the key handler makes of Activate on option idx in the current
\* state: of the digit idx + 1 and, with the option cursor on idx, of Enter.
Activated(idx) ==
    {handle_key_event(View, CharKey(Digits[idx + 2]), 0)}
    \cup (IF selected_idx = Some(idx)
          THEN {handle_key_event(View, Key("Enter"), 0)}
          ELSE {})

\* C28: Activate on an option that is not free-text of a SingleSelect
\* question makes the answer of that question the selection [idx] with no
\* free text, whatever it held, leaves the other answers alone, and then
\* navigates right: active_tab grows by one, and the reply is sent and
\* complete set when that is the submit tab and every answer is non-empty.
\* Stated of what the key handler makes of the key in every reachable state.
C28_SingleSelectActivate ==
    \A idx \in 0..(MaxOptions - 1) :
        (/\ CanActivate(idx)
         /\ ActiveQuestion.kind = "SingleSelect"
         /\ ~ActiveQuestion.options[idx + 1].is_free_text)
        => \A after \in Activated(idx) :
            /\ after.answers =
                    [answers EXCEPT ![active_tab + 1] = QuestionAnswer(<<idx>>, None)]
            /\ after.active_tab = active_tab + 1
            /\ IF after.active_tab = NumQuestions /\ AllNonEmpty(after.answers)
               THEN Submitted(after)
               ELSE Advanced(after)

\* The second option of SingleSelect question 0 was activated while
\* question 1 holds a free text: the dialog stands on question 1, nothing
\* sent.
C28_Witness ==
    /\ NumQuestions = 2
    /\ round.questions[1].kind = "SingleSelect"
    /\ answers[1] = QuestionAnswer(<<1>>, None)
    /\ FreeTextOf(answers[2]) # <<>>
    /\ active_tab = 1
    /\ sent = <<>>
    /\ ~complete
    /\ error = None

\* The indices of a list, as a set.
IndexSet(sel) == {sel[p] : p \in 1..Len(sel)}

\* The selected list with idx toggled: without idx if it holds idx, else
\* with idx, ascending.
Toggled(sel, idx) ==
    IF idx \in IndexSet(sel) THEN Ascending(IndexSet(sel) \ {idx})
    ELSE Ascending(IndexSet(sel) \cup {idx})

\* C29: Activate on an option that is not free-text of a MultiSelect
\* question toggles idx in the selected list (inserted keeping ascending
\* order if absent, removed if present), clears the free text and changes
\* neither active_tab nor complete, nor sends anything; a second Activate
\* on the same option restores the selected list.  Stated of what the key
\* handler makes of the key in every reachable state.
C29_MultiSelectToggle ==
    \A idx \in 0..(MaxOptions - 1) :
        (/\ CanActivate(idx)
         /\ ActiveQuestion.kind = "MultiSelect"
         /\ ~ActiveQuestion.options[idx + 1].is_free_text)
        => \A after \in Activated(idx) :
            /\ after.answers =
                    [answers EXCEPT ![active_tab + 1] =
                        QuestionAnswer(Toggled(ActiveAnswer.selected_option_indices, idx),
                                       None)]
            /\ after.active_tab = active_tab
            /\ after.complete = complete
            /\ after.sent = sent
            /\ ~after.is_editing_free_text
            /\ LET again == handle_key_event(after, CharKey(Digits[idx + 2]), 0)
               IN  /\ again.answers[active_tab + 1].selected_option_indices
                        = ActiveAnswer.selected_option_indices
                   /\ again.active_tab = active_tab

\* The second option of MultiSelect question 0 was activated while
\* question 1 holds a free text: the dialog still stands on question 0,
\* nothing sent.
C29_Witness ==
    /\ NumQuestions = 2
    /\ active_tab = 0
    /\ round.questions[1].kind = "MultiSelect"
    /\ answers[1] = QuestionAnswer(<<1>>, None)
    /\ FreeTextOf(answers[2]) # <<>>
    /\ ~complete
    /\ sent = <<>>

\* The free text saved for the active question; empty if none.
SavedFreeText ==
    IF is_some(ActiveAnswer.free_text) THEN unwrap(ActiveAnswer.free_text) ELSE <<>>

\* C30: Activate on a free-text option enters free-text editing on the
\* current tab, seeds the editor buffer with the free text saved for that
\* question (empty if none, so empty after a structured selection replaced
\* it, and never the text of another question) and clears the selected
\* indices of that question; an answer with a selection holds no free text.
\* Stated of what the key handler makes of the key in every reachable state.
C30_FreeTextActivate ==
    /\ \A i \in 1..Len(answers) :
        answers[i].selected_option_indices # <<>> => answers[i].free_text = None
    /\ \A idx \in 0..(MaxOptions - 1) :
        (CanActivate(idx) /\ ActiveQuestion.options[idx + 1].is_free_text)
        => \A after \in Activated(idx) :
            /\ after.is_editing_free_text
            /\ after.active_tab = active_tab
            /\ after.free_text_editor = SavedFreeText
            /\ after.answers =
                    [answers EXCEPT ![active_tab + 1] =
                        QuestionAnswer(<<>>, Some(SavedFreeText))]
            /\ after.complete = complete
            /\ after.sent = sent

\* The operator edits the free text of question 1 with an empty buffer
\* while question 0 holds a committed free text.
C30_Witness ==
    /\ NumQuestions = 2
    /\ active_tab = 1
    /\ is_editing_free_text
    /\ free_text_editor = <<>>
    /\ answers[2] = QuestionAnswer(<<>>, Some(<<>>))
    /\ answers[1].free_text = Some(<<"1">>)
    /\ ~complete

(* ---------------- the dialog of one question, longer free texts -------- *)

\* Characters the free-text editor holds at most in the dialog of one
\* question.
MaxEditText == 4

\* PlanQuestionsView::new over a round of one question.
EditInit ==
    /\ Init
    /\ Len(round.questions) = 1

\* A character typed into the editor, up to MaxEditText characters.
TypeLong ==
    /\ Accepting
    /\ is_editing_free_text
    /\ Len(free_text_editor) < MaxEditText
    /\ \E pos \in CursorPositions :
        \E key \in {CharKey("1"), CharKey(" "), CtrlJ} :
            Becomes(handle_key_event(View, key, pos))

\* A paste into the editor, up to MaxEditText characters.
PasteLong ==
    /\ Accepting
    /\ \E pasted \in TextsOf(0, MaxPaste) :
        /\ Len(free_text_editor) + Len(normalize_free_text(pasted)) <= MaxEditText
        /\ \E pos \in CursorPositions : Becomes(handle_paste(View, pasted, pos))

EditNext ==
    \/ PressEsc
    \/ PressLeft
    \/ PressRight
    \/ PressUp
    \/ PressDown
    \/ PressEnter
    \/ PressDigit
    \/ TypeLong
    \/ PressBackspace
    \/ PasteLong
    \/ CtrlC

EditSpec == EditInit /\ [][EditNext]_vars

(* ----------------------- free text, quick select ----------------------- *)

\* t with every run of whitespace collapsed to one space and both ends
\* trimmed, read off the positions of t from left to right: a character
\* that is not whitespace is kept, preceded by one space if whitespace
\* stands before it and a kept character before that.
Collapsed(t) ==
    LET kept[i \in 0..Len(t)] ==
            IF i = 0 THEN <<>>
            ELSE IF is_whitespace(t[i]) THEN kept[i - 1]
            ELSE IF kept[i - 1] # <<>> /\ is_whitespace(t[i - 1])
                 THEN kept[i - 1] \o <<" ", t[i]>>
            ELSE kept[i - 1] \o <<t[i]>>
    IN  kept[Len(t)]

\* The keys that commit the free text being edited.
CommitKeys == {Key("Enter"), Key("Right"), Key("Tab")}

\* C31: CommitFreeText (Enter, Right or Tab while editing) stores into the
\* current answer the editor buffer with every run of whitespace collapsed
\* to one space and both ends trimmed, leaves the other answers alone and
\* leaves free-text mode; normalizing twice gives what normalizing once
\* gives; and whenever the dialog is not editing, every saved free text is
\* its own collapsed form.  The commit is stated of what the key handler
\* makes of the key in every reachable state.
C31_CommitFreeText ==
    /\ normalize_free_text(normalize_free_text(free_text_editor))
            = normalize_free_text(free_text_editor)
    /\ ~is_editing_free_text =>
        \A i \in 1..Len(answers) :
            is_some(answers[i].free_text) =>
                unwrap(answers[i].free_text) = Collapsed(unwrap(answers[i].free_text))
    /\ is_editing_free_text =>
        \A key \in CommitKeys :
            LET after == handle_key_event(View, key, 0)
            IN  /\ after.answers =
                        [answers EXCEPT ![active_tab + 1].free_text =
                                            Some(Collapsed(free_text_editor))]
                /\ ~after.is_editing_free_text

\* The free text "1 1" was committed and sent as the reply; the dialog is
\* out of free-text mode.
C31_Witness ==
    /\ ~is_editing_free_text
    /\ answers[1].free_text = Some(<<"1", " ", "1">>)
    /\ sent = <<<<"1", " ", "1">>>>
    /\ complete

\* The view once the operator has moved the option cursor to option idx of
\* the active question with the Down key.
RECURSIVE CursorMovedTo(_, _)
CursorMovedTo(v, idx) ==
    IF v.selected_idx = Some(idx) THEN v
    ELSE CursorMovedTo(handle_key_event(v, Key("Down"), 0), idx)

\* The number a digit key stands for.
DigitOf(c) == CHOOSE d \in 0..9 : Digits[d + 1] = c

\* C32: outside free-text editing, QuickSelect(d) with d - 1 below the
\* option count of the current question produces exactly the state and
\* output that moving the cursor to option d - 1 and then Activate (Enter)
\* produces; digit 0, a digit past the last option, and any digit on the
\* submit tab change no field and send nothing; while editing free text a
\* digit is inserted into the editor buffer, mirrored into the free text of
\* the current answer, and changes nothing else.  Stated of what the key
\* handler makes of the key in every reachable state.
C32_QuickSelect ==
    \A c \in DigitKeys :
        IF is_editing_free_text
        THEN \A pos \in CursorPositions :
                LET typed == SubSeq(free_text_editor, 1, pos) \o <<c>>
                             \o SubSeq(free_text_editor, pos + 1, Len(free_text_editor))
                IN  handle_key_event(View, CharKey(c), pos) =
                        [View EXCEPT !.free_text_editor = typed,
                                     !.answers[active_tab + 1].free_text = Some(typed)]
        ELSE IF /\ active_tab < NumQuestions
                /\ DigitOf(c) >= 1
                /\ DigitOf(c) - 1 < Len(ActiveQuestion.options)
             THEN handle_key_event(View, CharKey(c), 0) =
                    handle_key_event(CursorMovedTo(View, DigitOf(c) - 1), Key("Enter"), 0)
             ELSE handle_key_event(View, CharKey(c), 0) = View

\* The second option of MultiSelect question 0 is selected, alone, with the
\* cursor on it, while the first question of two is the active one.
C32_Witness ==
    /\ NumQuestions = 2
    /\ active_tab = 0
    /\ ~is_editing_free_text
    /\ round.questions[1].kind = "MultiSelect"
    /\ selected_idx = Some(1)
    /\ answers[1] = QuestionAnswer(<<1>>, None)
    /\ answers[2] = DefaultAnswer
    /\ error = None
    /\ ~complete

(* --------------------- more properties of the parsers ------------------ *)

\* The classes of indented numbered line whose text holds a bold span or a
\* select-type word.
WordedClasses == {"BoldOption", "SingleOption", "MultiOption", "AllOption"}

\* Line n is an indented numbered line.
IsIndentedNumbered(n) ==
    IsLine(n, "Option") \/ \E class \in WordedClasses : IsLine(n, class)

\* The option an indented numbered line stands for: its text after the
\* number is the title, up to " - " where a description follows.
WordedOptionAt(n) ==
    IF IsLine(n, "Option") THEN OptionAt(n)
    ELSE QuestionOption(SubSeq(message[n], 6, Len(message[n])), None, FALSE)

\* The indented numbered lines that follow the k-th question line, up to
\* the next question line, in textual order.
IndentedLinesOf(k) ==
    LET qs == QuestionLineSeq
        from == qs[k]
        to == IF k < Len(qs) THEN qs[k + 1] ELSE Len(message) + 1
    IN  Ascending({n \in ScannedLines : from < n /\ n < to /\ IsIndentedNumbered(n)})

\* The question the k-th question line opens, every indented numbered line
\* under it an option, the sentinel last.
WordedQuestion(k) ==
    LET ns == IndentedLinesOf(k)
    IN  QuestionAt(QuestionLineSeq[k],
                   [j \in 1..Len(ns) |-> WordedOptionAt(ns[j])] \o <<SentinelOption>>)

\* C33: every indented numbered line under an open question starts a new
\* option of that question, whatever its text, a bold span or the words
\* single-select, multi-select or select all included; the questions are
\* as many as the question lines at zero indent.
C33_IndentedNumberedLinesAreOptions ==
    \A r \in ParserResults :
        /\ r # None
        /\ Len(unwrap(r).questions) = Cardinality(QuestionLines)
        /\ \A k \in 1..Len(unwrap(r).questions) :
            k <= Len(QuestionLineSeq) => unwrap(r).questions[k] = WordedQuestion(k)

\* C34: for every text that follows the grammar of the developer
\* instructions (the exact header, question lines at zero indent, option
\* lines indented by 2 spaces, each followed by at most one description
\* line indented by 5 spaces, 2 to 5 options a question, the last being
\* "(None) Type your answer"), the tui parser and the tui2 parser return
\* equal Rounds.
C34_ParsersAgreeOnGrammar ==
    (tui_parsed # <<>> /\ tui2_parsed # <<>>) =>
        /\ tui_parsed[1] # None
        /\ tui_parsed[1] = tui2_parsed[1]

\* The option lines listed under the k-th question line, up to the next
\* question line, in textual order.
ListedOptionLinesOf(k) ==
    LET qs == QuestionLineSeq
        from == qs[k]
        to == IF k < Len(qs) THEN qs[k + 1] ELSE Len(message) + 1
    IN  Ascending({n \in ScannedLines :
                        /\ from < n /\ n < to
                        /\ IsOptionLine(n) \/ IsLine(n, "Sentinel")})

\* C35: for every option of a Round that is not free-text, its 1-based
\* position in the option list of its question, which is the number the
\* codec emits when that option alone is selected, is its 1-based position
\* among the option lines of that question in the text: the digit in the
\* reply designates the option the agent listed at that position.
C35_OptionNumbersMatchText ==
    \A r \in ParsedRounds : \A k \in 1..Len(r.questions) :
        k <= Len(QuestionLineSeq) =>
            LET options == r.questions[k].options
                listed == ListedOptionLinesOf(k)
            IN  \A j \in 1..Len(options) :
                    ~options[j].is_free_text =>
                        /\ format_answer_line(r.questions[k], QuestionAnswer(<<j - 1>>, None))
                                = to_string(j)
                        /\ j <= Len(listed)
                        /\ options[j].title = TitleAt(listed[j])

(* ----------------------- more properties of the dialog ----------------- *)

\* C36: in every reachable state in free-text mode the active tab is a
\* question, the option under the cursor is a free-text option of that
\* question, the answer of that question has no selected index and its free
\* text is the editor buffer as typed, not normalized; and the Up, Down and
\* Left keys move neither the option cursor nor the tab there.  The keys
\* are stated of what the key handler makes of them in every such state.
C36_EditingFreeText ==
    is_editing_free_text =>
        /\ active_tab < NumQuestions
        /\ is_some(selected_idx)
        /\ unwrap(selected_idx) < Len(ActiveQuestion.options)
        /\ ActiveQuestion.options[unwrap(selected_idx) + 1].is_free_text
        /\ ActiveAnswer.selected_option_indices = <<>>
        /\ ActiveAnswer.free_text = Some(free_text_editor)
        /\ \A code \in {"Up", "Down", "Left"} : \A pos \in CursorPositions :
            LET after == handle_key_event(View, Key(code), pos)
            IN  /\ after.selected_idx = selected_idx
                /\ after.active_tab = active_tab
                /\ after.is_editing_free_text

\* The operator edits the free text of question 1 of two; the buffer holds
\* a blank before the digit, and so does the free text of the answer.
C36_Witness ==
    /\ NumQuestions = 2
    /\ active_tab = 1
    /\ is_editing_free_text
    /\ free_text_editor = <<" ", "1">>
    /\ answers[2] = QuestionAnswer(<<>>, Some(<<" ", "1">>))
    /\ ~complete

\* The keys the operator presses.
PressedKeys ==
    {Key(code) : code \in {"Esc", "Left", "Right", "Tab", "Up", "Down", "Enter", "Backspace"}}
    \cup {CharKey(c) : c \in DigitKeys \cup {" "}}
    \cup {CtrlJ}

\* The key navigates right: Right and Tab in either mode, and Enter in
\* free-text mode, which does what Right does there.
NavigatesRight(key) ==
    \/ key \in {Key("Right"), Key("Tab")}
    \/ /\ key = Key("Enter")
       /\ is_editing_free_text
       /\ handle_key_event(View, key, 0) = handle_key_event(View, Key("Right"), 0)

\* The key activates option idx of the active SingleSelect question, an
\* option that is not free-text: Enter with the cursor on it, or its digit.
ActivatesSingle(key, idx) ==
    /\ CanActivate(idx)
    /\ ActiveQuestion.kind = "SingleSelect"
    /\ ~ActiveQuestion.options[idx + 1].is_free_text
    /\ \/ key = Key("Enter") /\ selected_idx = Some(idx)
       \/ key = CharKey(Digits[idx + 2])

\* The view after the auto-advance of an activation of option idx: the
\* answer set, then a navigation to the right.
AutoAdvanced(idx) ==
    handle_key_event([View EXCEPT !.error = None,
                                  !.selected_idx = Some(idx),
                                  !.answers[active_tab + 1] = QuestionAnswer(<<idx>>, None)],
                     Key("Right"), 0)

\* C37: in every reachable state on the submit tab with complete not set
\* some answer is empty, so Activate (Enter) there is a refused submission:
\* nothing is sent, the error is set and the dialog goes to the first tab,
\* not complete.  And in every reachable state with complete not set, an
\* event that sends a reply is a navigation to the right from the last
\* question (Right, Tab, or Enter in free-text mode) or the activation of
\* an option of the last question, SingleSelect, whose auto-advance is that
\* navigation; pastes and Ctrl-C send nothing.  Stated of what the handlers
\* make of the events in every reachable state.
C37_SubmitOnlyByNavigation ==
    ~complete =>
        /\ active_tab = NumQuestions =>
            /\ ~AllNonEmpty(answers)
            /\ LET after == handle_key_event(View, Key("Enter"), 0)
               IN  /\ after.sent = sent
                   /\ ~after.complete
                   /\ after.error = ErrorAnswerAll
                   /\ after.active_tab = 0
        /\ \A key \in PressedKeys : \A pos \in CursorPositions :
            LET after == handle_key_event(View, key, pos)
            IN  after.sent # sent =>
                    /\ active_tab = NumQuestions - 1
                    /\ after.active_tab = NumQuestions
                    /\ Submitted(after)
                    /\ \/ NavigatesRight(key)
                       \/ \E idx \in 0..(MaxOptions - 1) :
                            ActivatesSingle(key, idx) /\ after = AutoAdvanced(idx)
        /\ on_ctrl_c(View).sent = sent
        /\ \A pasted \in TextsOf(0, MaxPaste) : \A pos \in CursorPositions :
            handle_paste(View, pasted, pos).sent = sent

\* The operator stands on the submit tab of two questions, the first
\* answered by a selection, the second not answered; nothing was sent and
\* no submission was refused.
C37_Witness ==
    /\ NumQuestions = 2
    /\ active_tab = 2
    /\ ~complete
    /\ answers[1] = QuestionAnswer(<<0>>, None)
    /\ answers[2] = DefaultAnswer
    /\ error = None
    /\ sent = <<>>

\* The free-text options of the active question, by index.
FreeTextIndices ==
    {idx \in 0..(Len(ActiveQuestion.options) - 1) : ActiveQuestion.options[idx + 1].is_free_text}

\* C38: after Activate on the free-text option of a question and a commit
\* (Enter, Right or Tab in free-text mode), the answer of that question is
\* non-empty if and only if the committed buffer is non-empty once
\* normalized; a selection the question held before free-text mode was
\* entered is not restored, so after an empty commit the answer has neither
\* selection nor text and the question counts as unanswered.  Stated of
\* what the key handler makes of the keys in every reachable state: of the
\* commit in every state in free-text mode, and of Activate followed at
\* once by a commit in every state outside it.
C38_EmptyCommitLeavesUnanswered ==
    /\ is_editing_free_text =>
        \A key \in CommitKeys :
            LET answer == handle_key_event(View, key, 0).answers[active_tab + 1]
            IN  /\ answer.selected_option_indices = <<>>
                /\ answer_is_nonempty(answer) <=> Collapsed(free_text_editor) # <<>>
    /\ (~is_editing_free_text /\ active_tab < NumQuestions) =>
        \A idx \in FreeTextIndices : \A entered \in Activated(idx) : \A key \in CommitKeys :
            LET answer == handle_key_event(entered, key, 0).answers[active_tab + 1]
            IN  /\ answer.selected_option_indices = <<>>
                /\ answer_is_nonempty(answer) <=> Trimmed(SavedFreeText) # <<>>

\* Question 0, MultiSelect, of two holds an empty committed free text and
\* no selection while the dialog stands on question 1, out of free-text
\* mode, and question 1 is answered.
C38_Witness ==
    /\ NumQuestions = 2
    /\ round.questions[1].kind = "MultiSelect"
    /\ answers[1] = QuestionAnswer(<<>>, Some(<<>>))
    /\ answers[2].selected_option_indices # <<>>
    /\ active_tab = 1
    /\ ~is_editing_free_text
    /\ ~complete
    /\ sent = <<>>

\* One event on the way to a submission, as the view it leads to: in
\* free-text mode a digit is typed into a buffer that is empty once
\* normalized, and a buffer that is not is committed with Enter; outside it
\* the operator goes to the first unanswered question with Left or Right
\* and activates its free-text option by its digit, and goes right when
\* every question is answered.
TowardsSubmission(v) ==
    IF v.is_editing_free_text
    THEN IF normalize_free_text(v.free_text_editor) = <<>>
         THEN handle_key_event(v, CharKey("1"), 0)
         ELSE handle_key_event(v, Key("Enter"), 0)
    ELSE IF AllNonEmpty(v.answers) THEN handle_key_event(v, Key("Right"), 0)
    ELSE LET first == FirstEmpty(v.answers)
             options == round.questions[first + 1].options
             free == CHOOSE idx \in 0..(Len(options) - 1) : options[idx + 1].is_free_text
         IN  IF v.active_tab > first THEN handle_key_event(v, Key("Left"), 0)
             ELSE IF v.active_tab < first THEN handle_key_event(v, Key("Right"), 0)
             ELSE handle_key_event(v, CharKey(Digits[free + 2]), 0)

\* The view after at most n such events, the last being the one that sets
\* complete.
RECURSIVE AfterEvents(_, _)
AfterEvents(v, n) ==
    IF v.complete \/ n = 0 THEN v ELSE AfterEvents(TowardsSubmission(v), n - 1)

\* C39: from every reachable dialog state with complete not set, over a
\* round whose questions each have a free-text option as the parser leaves
\* them, a finite sequence of key events leads to a successful submission:
\* one more reply on the channel, the codec's output for answers that are
\* all non-empty, and complete set; and a Cancel event (Esc, Ctrl-C) sets
\* complete in one step.  No reachable state with complete not set lacks
\* either.  The sequence is given event by event (at most five events a
\* tab), so the property is stated of what the handlers make of those
\* events in every reachable state.
C39_SubmissionAndCancelPossible ==
    ~complete =>
        /\ LET end == AfterEvents(View, 5 * (NumQuestions + 1))
           IN  /\ end.complete
               /\ AllNonEmpty(end.answers)
               /\ end.sent = Append(sent, format_answers(round, end.answers))
        /\ handle_key_event(View, Key("Esc"), 0).complete
        /\ on_ctrl_c(View).complete

\* The operator stands on the submit tab of two questions that have the
\* free-text option only; the second holds an empty committed free text,
\* the first a free text; nothing was sent.
C39_Witness ==
    /\ NumQuestions = 2
    /\ \A i \in 1..2 : Len(round.questions[i].options) = 1
    /\ active_tab = 2
    /\ ~complete
    /\ answers[1] = QuestionAnswer(<<>>, Some(<<"1">>))
    /\ answers[2] = QuestionAnswer(<<>>, Some(<<>>))
    /\ sent = <<>>
====
